---- MODULE Spec2Model ----
(***************************************************************************)
(* Model of src/heap_iter.rs: the stackful pre-order heap iterator         *)
(* (StackfulPreOrderHeapIter) and the post-order adapter                   *)
(* (PostOrderIterator) of the term-graph traversal core.                   *)
(*                                                                         *)
(* The heap and the machine stack are sequences of cells; heap index i of  *)
(* the source is position i + 1 of the sequence.                           *)
(***************************************************************************)
EXTENDS Integers, Sequences, FiniteSets, TLC

VARIABLES
    pc,                 \* "idle" | "live" | "panic" | "hang" | "fuel" | "unwound" | "abort"
    kind,               \* "pre" | "post": which iterator is (or was last) built
    root,               \* the cell handed to the constructor
    heap,               \* StackfulPreOrderHeapIter.heap
    machine_stack,      \* StackfulPreOrderHeapIter.machine_stack
    stack,              \* StackfulPreOrderHeapIter.stack (the work list)
    h,                  \* StackfulPreOrderHeapIter.h (the focus)
    focus,              \* PostOrderIterator.focus
    base_iter_valid,    \* PostOrderIterator.base_iter_valid
    parent_stack,       \* PostOrderIterator.parent_stack
    heap0,              \* the heap before the first construction
    ret,                \* what the last call returned (NoCall before any call)
    out,                \* the cells yielded by the current iterator, in order
    out_foci,           \* focus() right after each yield of out
    prev,               \* the stream of the previous, fully consumed iterator
    has_prev,           \* whether prev is set
    runs,               \* iterators constructed so far
    extra,              \* next calls made after next returned nothing
    op,                 \* the last operation: "init" | "new" | "next" | "drop" | ...
    answer,             \* <<idx_loc, result>> of the last direct_subterm_of_str call, <<>> after any other operation
    discarded           \* <<focus, Len(out)>> of every parent frame pop_stack removed from the current iterator

vars == <<pc, kind, root, heap, machine_stack, stack, h, focus, base_iter_valid,
          parent_stack, heap0, ret, out, out_foci, prev, has_prev, runs, extra, op,
          answer, discarded>>

----------------------------------------------------------------------------
(* Bounds of the model *)

\* length of the exhaustively enumerated heaps
MaxHeapLen == 1
\* iterators constructed in succession on one heap
MaxRuns == 2
\* next calls made after the end of the stream
MaxExtra == 2
\* cells one iterator may yield before the model stops calling next
MaxYield == 14
\* work-list pops inside one call before the model gives up
PopFuel == 24

----------------------------------------------------------------------------
(* Cells: kind tag, payload, mark bit, forwarding bit *)

Cell(tag, name, val) ==
    [tag |-> tag, name |-> name, val |-> val, m |-> FALSE, f |-> FALSE]

str_loc_as_cell(i)     == Cell("Str", "", i)
list_loc_as_cell(i)    == Cell("Lis", "", i)
heap_loc_as_cell(i)    == Cell("Var", "", i)
attr_var_as_cell(i)    == Cell("AttrVar", "", i)
stack_loc_as_cell(i)   == Cell("StackVar", "", i)
pstr_loc_as_cell(i)    == Cell("PStrLoc", "", i)
pstr_offset_as_cell(i) == Cell("PStrOffset", "", i)
pstr_as_cell(name)     == Cell("PStr", name, 0)
atom_as_cell(name, arity) == Cell("Atom", name, arity)
fixnum_as_cell(n)      == Cell("Fixnum", "", n)
empty_list_as_cell     == atom_as_cell("[]", 0)

\* Option::None of a next / pop_stack call, and "no call made yet"
None   == Cell("None", "", 0)
NoCall == Cell("NoCall", "", 0)

unmark_cell_bits(c) == [c EXCEPT !.m = FALSE, !.f = FALSE]

get_mark_bit(c) == c.m
get_forwarding_bit(c) == c.f
set_mark_bit(c, b) == [c EXCEPT !.m = b]
set_forwarding_bit(c, b) == [c EXCEPT !.f = b]

----------------------------------------------------------------------------
(* IterStackLoc *)

iterable_loc(v, hs)     == [value |-> v, tag |-> "Iterable", heap_or_stack |-> hs]
\* mark_loc building an Iterable entry
mark_loc_untagged(v, hs) == [value |-> v, tag |-> "Iterable", heap_or_stack |-> hs]
mark_loc(v, hs)         == [value |-> v, tag |-> "Marked", heap_or_stack |-> hs]
pending_mark_loc(v, hs) == [value |-> v, tag |-> "PendingMark", heap_or_stack |-> hs]
\* no entry taken for one tagged Marked
is_marked_never(l) == FALSE

is_marked(l)       == l.tag = "Marked"
is_pending_mark(l) == l.tag = "PendingMark"

----------------------------------------------------------------------------
(* The iterator as a value: [heap, machine_stack, stack, h, panic].        *)
(* panic records an index out of range; every operation is skipped once it *)
(* is set, as the unwinding skips the rest of the call.                    *)

Iter(hp, ms, st, hh) ==
    [heap |-> hp, machine_stack |-> ms, stack |-> st, h |-> hh, panic |-> FALSE]

InRange(it, loc) ==
    IF loc.heap_or_stack = "Heap"
    THEN loc.value >= 0 /\ loc.value < Len(it.heap)
    ELSE loc.value >= 0 /\ loc.value < Len(it.machine_stack)

\* an index out of range passing unnoticed
NoPanic(it) == it

Panic(it) == [it EXCEPT !.panic = TRUE]

read_cell(it, loc) ==
    IF loc.heap_or_stack = "Heap"
    THEN it.heap[loc.value + 1]
    ELSE it.machine_stack[loc.value + 1]

\* read_cell_mut followed by a write of the cell
write_cell(it, loc, c) ==
    IF loc.heap_or_stack = "Heap"
    THEN [it EXCEPT !.heap[loc.value + 1] = c]
    ELSE [it EXCEPT !.machine_stack[loc.value + 1] = c]

push_stack(it, e) ==
    IF it.panic THEN it ELSE [it EXCEPT !.stack = Append(@, e)]

\* push_if_unmarked without its mark: the entry is pushed, the cell left as is
push_without_mark(it, loc) ==
    IF it.panic THEN it
    ELSE IF ~InRange(it, loc) THEN Panic(it)
    ELSE push_stack(it, iterable_loc(loc.value, loc.heap_or_stack))

\* push_if_unmarked without its push: the cell is marked, no entry is left
mark_without_push(it, loc) ==
    IF it.panic THEN it
    ELSE IF ~InRange(it, loc) THEN Panic(it)
    ELSE write_cell(it, loc, set_mark_bit(read_cell(it, loc), TRUE))

push_if_unmarked(it, loc) ==
    IF it.panic THEN it
    ELSE IF ~InRange(it, loc) THEN Panic(it)
    ELSE LET cell == read_cell(it, loc) IN
         IF ~get_mark_bit(cell)
         THEN push_stack(write_cell(it, loc, set_mark_bit(cell, TRUE)),
                         iterable_loc(loc.value, loc.heap_or_stack))
         ELSE it

\* the reference kinds without the variables
RefTagsNoVar == {"Str", "Lis", "PStrLoc"}

RefTags == {"Str", "Lis", "AttrVar", "Var", "PStrLoc"}

\* forward_if_referent_marked storing the flagged cell over its referent
forward_into_referent(it, loc) ==
    IF it.panic THEN it
    ELSE IF ~InRange(it, loc) THEN Panic(it)
    ELSE LET cell == read_cell(it, loc) IN
         IF cell.tag \in RefTags /\ InRange(it, iterable_loc(cell.val, "Heap"))
            /\ get_mark_bit(it.heap[cell.val + 1])
         THEN write_cell(it, iterable_loc(cell.val, "Heap"), set_forwarding_bit(cell, TRUE))
         ELSE it

\* forward_if_referent_marked never setting the forwarding bit
forward_never(it, loc) ==
    IF it.panic THEN it
    ELSE IF ~InRange(it, loc) THEN Panic(it)
    ELSE it

\* forward_if_referent_marked flagging every reference, marked referent or not
forward_every_reference(it, loc) ==
    IF it.panic THEN it
    ELSE IF ~InRange(it, loc) THEN Panic(it)
    ELSE IF read_cell(it, loc).tag \in RefTags \cup {"StackVar"}
         THEN write_cell(it, loc, set_forwarding_bit(read_cell(it, loc), TRUE))
         ELSE it

forward_if_referent_marked(it, loc) ==
    IF it.panic THEN it
    ELSE IF ~InRange(it, loc) THEN Panic(it)
    ELSE LET cell == read_cell(it, loc) IN
         IF cell.tag \in RefTags
         THEN IF ~InRange(it, iterable_loc(cell.val, "Heap")) THEN Panic(it)
              ELSE IF get_mark_bit(it.heap[cell.val + 1])
                   THEN write_cell(it, loc, set_forwarding_bit(cell, TRUE))
                   ELSE it
         ELSE IF cell.tag = "StackVar"
         THEN IF ~InRange(it, iterable_loc(cell.val, "Stack")) THEN Panic(it)
              ELSE IF get_mark_bit(it.machine_stack[cell.val + 1])
                   THEN write_cell(it, loc, set_forwarding_bit(cell, TRUE))
                   ELSE it
         ELSE it

----------------------------------------------------------------------------
(* StackfulPreOrderHeapIter::follow, one iteration of its while loop.      *)
(* The result is [it, ret, k]: k = "yield" when the iteration returns      *)
(* Some(ret), "continue" when the loop goes on.                            *)

Yield(it, c)  == [it |-> it, ret |-> c, k |-> "yield"]
Continue(it)  == [it |-> it, ret |-> None, k |-> "continue"]

Last(s) == s[Len(s)]
Front(s) == SubSeq(s, 1, Len(s) - 1)

\* the PendingMark entries pushed in the order l + 2, ..., l + arity
pending_args_ascending(l, arity) ==
    IF arity < 2 THEN <<>>
    ELSE [i \in 1 .. (arity - 1) |-> pending_mark_loc(l + 1 + i, "Heap")]

\* the PendingMark entries of the arguments l + arity, ..., l + 2
pending_args(l, arity) ==
    IF arity < 2 THEN <<>>
    ELSE [i \in 1 .. (arity - 1) |-> pending_mark_loc(l + arity + 1 - i, "Heap")]

push_all(it, es) ==
    IF it.panic THEN it ELSE [it EXCEPT !.stack = @ \o es]

\* the entries of a cons pair pushed with the tail on top of the head
lis_entries_tail_first(vh) ==
    <<mark_loc(vh, "Heap"), pending_mark_loc(vh + 1, "Heap")>>

\* the entries the Lis branch pushes for the cons pair at vh: the tail as
\* PendingMark, then the head as Marked, which is popped first
lis_entries(vh) ==
    <<pending_mark_loc(vh + 1, "Heap"), mark_loc(vh, "Heap")>>

\* Some(self.read_cell(h)) at the end of a branch
YieldAt(it, loc) ==
    IF it.panic THEN Continue(it) ELSE Yield(it, read_cell(it, loc))

\* a reference yielded as it is read at the focus
deref_yield(it) == YieldAt(it, it.h)

\* the continue that ends the Str / PStrLoc, AttrVar / Var and StackVar
\* branches: the reference is left for what its target yields
deref_continue(it) == Continue(it)

\* the target of a StackVar looked up on the heap
stack_var_on_heap(vs) == iterable_loc(vs, "Heap")

\* let loc = IterStackLoc::iterable_loc(vs, HeapOrStackTag::Stack)
stack_var_loc(vs) == iterable_loc(vs, "Stack")

\* the partial string taken for its own tail
pstr_tail_is_self(loc) == iterable_loc(loc.value, "Heap")

\* tail_loc of the PStr branch: the cell after the partial string
pstr_tail_loc(loc) == iterable_loc(loc.value + 1, "Heap")

\* the segment at offset pushed for a visit of its own
push_offset_unmarked(it, offset) == push_stack(it, iterable_loc(offset, "Heap"))

\* first statement of the PStrOffset branch: the segment at offset is
\* marked and pushed as Iterable
push_offset(it, offset) == push_if_unmarked(it, iterable_loc(offset, "Heap"))

follow_dispatch(it, loc, cell) ==
    IF cell.tag \in {"Str", "PStrLoc"} THEN
        deref_continue(push_stack(push_if_unmarked(it, iterable_loc(cell.val, "Heap")),
                                  mark_loc(cell.val, "Heap")))
    ELSE IF cell.tag = "Lis" THEN
        LET vl == iterable_loc(cell.val, "Heap")
            a == push_if_unmarked(it, vl)
            c == push_all(a, lis_entries(cell.val))
        IN YieldAt(forward_if_referent_marked(c, vl), loc)
    ELSE IF cell.tag \in {"AttrVar", "Var"} THEN
        LET vl == iterable_loc(cell.val, "Heap")
            a == push_if_unmarked(it, vl)
            b == push_stack(a, mark_loc(cell.val, "Heap"))
        IN deref_continue(forward_if_referent_marked(b, vl))
    ELSE IF cell.tag = "StackVar" THEN
        LET vl == stack_var_loc(cell.val)
            a == push_if_unmarked(it, vl)
            b == push_stack(a, mark_loc(cell.val, "Stack"))
        IN deref_continue(forward_if_referent_marked(b, vl))
    ELSE IF cell.tag = "PStrOffset" THEN
        LET a == push_offset(it, cell.val)
            b == push_stack(a, iterable_loc(loc.value + 1, "Heap"))
        IN YieldAt(b, loc)
    ELSE IF cell.tag = "PStr" THEN
        LET tail_loc == pstr_tail_loc(loc)
            a == push_if_unmarked(it, iterable_loc(loc.value, "Heap"))
            b == push_stack(a, tail_loc)
        IN YieldAt(forward_if_referent_marked(b, tail_loc), loc)
    ELSE IF cell.tag = "Atom" THEN
        LET l == loc.value
            arity == cell.val
            a == push_all(it, pending_args(l, arity))
            first_arg_loc == iterable_loc(l + 1, "Heap")
            b == IF arity > 0
                 THEN forward_if_referent_marked(
                          push_stack(push_if_unmarked(a, first_arg_loc),
                                     mark_loc(l + 1, "Heap")),
                          first_arg_loc)
                 ELSE a
        IN YieldAt(b, loc)
    ELSE Yield(it, cell)

\* the focus left where it was
keep_h(it, loc) == it

\* self.h = h
set_h(it, loc) == [it EXCEPT !.h = loc]

\* the mark of a popped Iterable entry left set
keep_mark(it, loc, cell) == it

\* cell.set_mark_bit(false) on a popped Iterable entry whose cell is marked
clear_mark(it, loc, cell) == write_cell(it, loc, set_mark_bit(cell, FALSE))

\* the stored cell returned, its forwarding bit cleared in the copy too
emit_cleared_copy(it, loc, cell) ==
    Yield(write_cell(it, loc, set_forwarding_bit(cell, FALSE)), set_forwarding_bit(cell, FALSE))

\* the forwarded cell returned and its forwarding bit left set in the store
emit_keeping_bit(it, loc, cell) == Yield(it, cell)

\* let copy = *cell; cell.set_forwarding_bit(false); return Some(copy)
emit_sentinel(it, loc, cell) ==
    Yield(write_cell(it, loc, set_forwarding_bit(cell, FALSE)), cell)

follow_step(it0) ==
    LET loc == Last(it0.stack)
        it1 == [it0 EXCEPT !.stack = Front(@)]
    IN IF is_pending_mark(loc) THEN
           Continue(forward_if_referent_marked(
               push_stack(push_if_unmarked(it1, loc),
                          mark_loc(loc.value, loc.heap_or_stack)),
               loc))
       ELSE LET it2 == set_h(it1, loc) IN
           IF ~InRange(it2, loc) THEN Continue(Panic(it2))
           ELSE LET cell == read_cell(it2, loc) IN
               IF get_forwarding_bit(cell)
               THEN emit_sentinel(it2, loc, cell)
               ELSE IF get_mark_bit(cell) /\ ~is_marked(loc)
               THEN Continue(clear_mark(it2, loc, cell))
               ELSE follow_dispatch(it2, loc, cell)

(* follow: the while loop.  The result is [it, ret, end]: end = "some"    *)
(* (ret yielded), "none" (work list empty), "panic" (index out of range), *)
(* "hang" (the loop came back to a state it was in during this call, so   *)
(* it never returns) or "fuel" (PopFuel pops made without an answer).     *)

Result(it, r, e) == [it |-> it, ret |-> r, end |-> e]

\* the end of the stream leaving the root on the work list again
follow_end_rearmed(it) ==
    Result([it EXCEPT !.stack = <<iterable_loc(Len(it.heap) - 1, "Heap")>>], None, "none")

\* the None after the while loop: the work list is empty
follow_end(it) == Result(it, None, "none")

RECURSIVE follow_loop(_, _, _)
follow_loop(it, seen, fuel) ==
    IF it.stack = <<>> THEN follow_end(it)
    ELSE IF it \in seen THEN Result(it, None, "hang")
    ELSE IF fuel = 0 THEN Result(it, None, "fuel")
    ELSE LET r == follow_step(it) IN
         IF r.it.panic THEN Result(r.it, None, "panic")
         ELSE IF r.k = "yield" THEN Result(r.it, r.ret, "some")
         ELSE follow_loop(r.it, seen \cup {it}, fuel - 1)

follow(it) == follow_loop(it, {}, PopFuel)

\* Iterator::next of StackfulPreOrderHeapIter
pre_next(it) == follow(it)

(* StackfulPreOrderHeapIter::pop_stack: the entries of the work list are   *)
(* popped until one is found whose cell is not just marked; the result is  *)
(* [it, ret, end] as for follow.                                           *)
RECURSIVE pop_stack(_)

\* the popped cell returned with its mark set in the store
pop_stack_cell_marking(it, loc, cell) ==
    Result(write_cell(it, loc, set_mark_bit(cell, TRUE)), cell, "some")

\* the cell read at the popped entry loc
pop_stack_cell(it, loc, cell) ==
    IF get_forwarding_bit(cell)
    THEN Result(write_cell(it, loc, set_forwarding_bit(cell, FALSE)),
                set_forwarding_bit(cell, FALSE), "some")
    ELSE IF get_mark_bit(cell) /\ ~is_marked(loc)
    THEN pop_stack(write_cell(it, loc, set_mark_bit(cell, FALSE)))
    ELSE Result(it, cell, "some")

\* the entry loc popped from the work list
pop_stack_entry(it, loc) ==
    IF ~InRange(it, loc) THEN Result(Panic(set_h(it, loc)), None, "panic")
    ELSE pop_stack_cell(set_h(it, loc), loc, read_cell(it, loc))

pop_stack(it) ==
    IF it.stack = <<>> THEN Result(it, None, "none")
    ELSE pop_stack_entry([it EXCEPT !.stack = Front(@)], Last(it.stack))

\* StackfulPreOrderHeapIter::new
pre_new(hp, ms, cell) ==
    LET hh == iterable_loc(Len(hp), "Heap")
    IN Iter(Append(hp, cell), ms, <<hh>>, hh)

(* Drop for StackfulPreOrderHeapIter.  An entry out of range panics inside *)
(* drop: the rest of drop (further entries, heap.pop) does not run.        *)
\* the drop loop clearing the mark bit only
RECURSIVE drop_loop_keeping_forwarding(_)
drop_loop_keeping_forwarding(it) ==
    IF it.stack = <<>> THEN it
    ELSE LET loc == Last(it.stack)
             it1 == [it EXCEPT !.stack = Front(@)]
         IN IF ~InRange(it1, loc) THEN Panic(it1)
            ELSE drop_loop_keeping_forwarding(
                     write_cell(it1, loc, set_mark_bit(read_cell(it1, loc), FALSE)))

RECURSIVE drop_loop(_)
drop_loop(it) ==
    IF it.stack = <<>> THEN it
    ELSE LET loc == Last(it.stack)
             it1 == [it EXCEPT !.stack = Front(@)]
         IN IF ~InRange(it1, loc) THEN Panic(it1)
            ELSE drop_loop(write_cell(it1, loc,
                     set_mark_bit(set_forwarding_bit(read_cell(it1, loc), FALSE), FALSE)))

\* drop without self.heap.pop()
pre_drop_keeping_root(it) == drop_loop(it)

pre_drop(it) ==
    LET a == drop_loop(it)
    IN IF a.panic THEN a ELSE [a EXCEPT !.heap = Front(@)]

----------------------------------------------------------------------------
(* PostOrderIterator over the stackful pre-order iterator, as a value:     *)
(* [focus, base_iter, base_iter_valid, parent_stack]; a parent frame is    *)
(* [child_count, node, focus].                                             *)

Frame(n, node, f) == [child_count |-> n, node |-> node, focus |-> f]

\* PostOrderIterator::new
post_new(base_iter) ==
    [focus |-> iterable_loc(0, "Heap"), base_iter |-> base_iter,
     base_iter_valid |-> TRUE, parent_stack |-> <<>>]

\* stackful_post_order_iter
stackful_post_order_iter(hp, ms, cell) == post_new(pre_new(hp, ms, cell))

\* post_frame recording the initial focus in place of the base's focus
post_frame_unfocused(item, f) ==
    IF item.tag = "Atom" THEN <<Frame(item.val, item, iterable_loc(0, "Heap"))>>
    ELSE IF item.tag = "Lis" THEN <<Frame(2, item, iterable_loc(0, "Heap"))>>
    ELSE IF item.tag \in {"PStr", "PStrOffset"} THEN <<Frame(1, item, iterable_loc(0, "Heap"))>>
    ELSE <<>>

\* post_frame expecting one child of a Lis cell
post_frame_lis_one_child(item, f) ==
    IF item.tag = "Atom" THEN <<Frame(item.val, item, f)>>
    ELSE IF item.tag \in {"Lis", "PStr", "PStrOffset"} THEN <<Frame(1, item, f)>>
    ELSE <<>>

\* the frame pushed for an item of the base iterator; <<>> for a leaf
post_frame(item, f) ==
    IF item.tag = "Atom" THEN <<Frame(item.val, item, f)>>
    ELSE IF item.tag = "Lis" THEN <<Frame(2, item, f)>>
    ELSE IF item.tag \in {"PStr", "PStrOffset"} THEN <<Frame(1, item, f)>>
    ELSE <<>>

(* Iterator::next of PostOrderIterator: its loop, the adapter as a value.  *)
(* The result is [it, ret, end] as for follow, it being the adapter.       *)
RECURSIVE post_loop(_, _)

\* post_rest returning None while parent frames remain
post_rest_no_drain(po, fuel) == Result(po, None, "none")

\* the end of an iteration: return None when no parent is left, or loop
post_rest(po, fuel) ==
    IF po.parent_stack = <<>> THEN Result(po, None, "none")
    ELSE post_loop(po, fuel - 1)

\* post_item pushing no frame for a parent, which is then never yielded
post_item_dropping(po, item, f, fuel) ==
    IF post_frame(item, f) # <<>>
    THEN post_loop(po, fuel - 1)
    ELSE Result([po EXCEPT !.focus = f], item, "some")

\* the item the base iterator yielded, with the focus f it was read at
post_item(po, item, f, fuel) ==
    IF post_frame(item, f) # <<>>
    THEN post_loop([po EXCEPT !.parent_stack = @ \o post_frame(item, f)], fuel - 1)
    ELSE Result([po EXCEPT !.focus = f], item, "some")

\* the answer r of self.base_iter.next()
post_base(po, r, fuel) ==
    IF r.end \in {"panic", "hang", "fuel"}
    THEN Result([po EXCEPT !.base_iter = r.it], None, r.end)
    ELSE IF r.end = "some"
    THEN post_item([po EXCEPT !.base_iter = r.it], r.ret, r.it.h, fuel)
    ELSE post_rest([po EXCEPT !.base_iter = r.it, !.base_iter_valid = FALSE], fuel)

\* the iteration after the parent frame was looked at
post_step(po, fuel) ==
    IF po.base_iter_valid
    THEN post_base(po, pre_next(po.base_iter), fuel)
    ELSE post_rest(po, fuel)

\* post_loop yielding the top frame whatever its count
post_loop_eager(po, fuel) ==
    IF po.parent_stack # <<>>
    THEN Result([po EXCEPT !.parent_stack = Front(@),
                           !.focus = Last(po.parent_stack).focus],
                Last(po.parent_stack).node, "some")
    ELSE IF fuel = 0 THEN Result(po, None, "fuel")
    ELSE post_step(po, fuel)

post_loop(po, fuel) ==
    LET has == po.parent_stack # <<>>
        top == Last(po.parent_stack)
    IN IF has /\ top.child_count = 0
       THEN Result([po EXCEPT !.parent_stack = Front(@), !.focus = top.focus],
                   top.node, "some")
       ELSE IF fuel = 0 THEN Result(po, None, "fuel")
       ELSE IF has
       THEN post_step([po EXCEPT !.parent_stack[Len(po.parent_stack)].child_count = @ - 1],
                      fuel)
       ELSE post_step(po, fuel)

post_next(po) == post_loop(po, PopFuel)

\* direct_subterm_of_str taking the header's own location for an argument
direct_subterm_or_header(po, idx_loc) ==
    IF po.parent_stack # <<>> /\ Last(po.parent_stack).node.tag = "Atom"
    THEN /\ Last(po.parent_stack).focus.value + Last(po.parent_stack).node.val >= idx_loc
         /\ Last(po.parent_stack).focus.value <= idx_loc
    ELSE FALSE

\* PostOrderIterator::direct_subterm_of_str
direct_subterm_of_str(po, idx_loc) ==
    IF po.parent_stack # <<>> /\ Last(po.parent_stack).node.tag = "Atom"
    THEN /\ Last(po.parent_stack).focus.value + Last(po.parent_stack).node.val >= idx_loc
         /\ Last(po.parent_stack).focus.value < idx_loc
    ELSE FALSE

\* for _ in 0 .. n { self.base_iter.pop_stack(); }
RECURSIVE base_pops(_, _)
base_pops(it, n) ==
    IF n = 0 \/ it.panic THEN it ELSE base_pops(pop_stack(it).it, n - 1)

\* the parent stack left as it is after the pops
keep_frame(po) == po

\* self.parent_stack.pop() after the pops
pop_frame(po) ==
    IF po.base_iter.panic THEN po ELSE [po EXCEPT !.parent_stack = Front(@)]

\* LeftistPostOrderHeapIter::pop_stack
post_pop_stack(po) ==
    IF po.parent_stack = <<>> THEN po
    ELSE pop_frame([po EXCEPT !.base_iter = base_pops(@, Last(po.parent_stack).child_count)])

----------------------------------------------------------------------------
(* The state of the program as values *)

TheIter == Iter(heap, machine_stack, stack, h)

ThePost ==
    [focus |-> focus, base_iter |-> TheIter,
     base_iter_valid |-> base_iter_valid, parent_stack |-> parent_stack]

\* FocusedHeapIter::focus of the iterator in use
TheFocus == IF kind = "pre" THEN h ELSE focus

EndPc(e) ==
    IF e \in {"some", "none"} THEN "live"
    ELSE IF e = "panic" THEN "panic"
    ELSE IF e = "hang" THEN "hang"
    ELSE "fuel"

----------------------------------------------------------------------------
(* Inputs: a heap, a machine stack and a root cell.                        *)

\* a cell that can stand where a term is expected: an argument, a list
\* head or tail, the tail of a partial string, the root
IsValue(c) ==
    \/ c.tag \in {"Var", "AttrVar", "Str", "Lis", "PStrLoc", "StackVar", "Fixnum"}
    \/ c.tag = "Atom" /\ c.val = 0

(* The layout of section 3 of the specification for the cell c stored at   *)
(* index l of heap hp (l = Len(hp) for the root): a Str refers to the      *)
(* header of a compound, a PStrLoc to a partial string, a PStrOffset to a      *)
(* PStr and is followed by its offset, a header is followed by its         *)
(* arguments, a Lis refers to a head and a tail, a PStr is followed by its *)
(* tail, and every index lies inside the heap or the machine stack.        *)
CellOk(hp, ms, c, l) ==
    LET n == Len(hp)
        at(i) == hp[i + 1]
    IN CASE c.tag = "Str" -> c.val < n /\ at(c.val).tag = "Atom" /\ at(c.val).val > 0
         [] c.tag = "PStrLoc" -> c.val < n /\ at(c.val).tag \in {"PStr", "PStrOffset"}
         [] c.tag = "PStrOffset" ->
                c.val < n /\ at(c.val).tag = "PStr" /\ l + 1 < n /\ at(l + 1).tag = "Fixnum"
         [] c.tag = "Atom" ->
                c.val = 0 \/ (l + c.val < n /\ \A i \in 1 .. c.val : IsValue(at(l + i)))
         [] c.tag = "Lis" -> c.val + 1 < n /\ IsValue(at(c.val)) /\ IsValue(at(c.val + 1))
         [] c.tag = "PStr" -> l + 1 < n /\ IsValue(at(l + 1))
         [] c.tag \in {"Var", "AttrVar"} -> c.val < n
         [] c.tag = "StackVar" -> c.val < Len(ms)
         [] OTHER -> TRUE

\* the blocks index i of the heap belongs to: the arguments of a header,
\* the head and tail of a Lis, the tail of a PStr, the offset of a PStrOffset
Blocks(hp, ms, c, i) ==
    LET n == Len(hp)
        cells == {hp[j] : j \in 1 .. n} \cup {ms[j] : j \in 1 .. Len(ms)} \cup {c}
    IN {<<"struct", l>> : l \in {l \in 0 .. (n - 1) :
            hp[l + 1].tag = "Atom" /\ l < i /\ i <= l + hp[l + 1].val}}
       \cup {<<"pstr", l>> : l \in {l \in 0 .. (n - 1) : hp[l + 1].tag = "PStr" /\ i = l + 1}}
       \cup {<<"offset", l>> : l \in {l \in 0 .. (n - 1) :
            hp[l + 1].tag = "PStrOffset" /\ i = l + 1}}
       \cup {<<"cons", x.val>> : x \in {x \in cells : x.tag = "Lis" /\ i \in {x.val, x.val + 1}}}

\* a heap laid out as terms: every cell is well typed and no cell belongs
\* to two blocks
WellFormed(hp, ms, c) ==
    /\ \A i \in 1 .. Len(hp) : CellOk(hp, ms, hp[i], i - 1)
    /\ \A i \in 1 .. Len(ms) : IsValue(ms[i]) /\ CellOk(hp, ms, ms[i], Len(hp))
    /\ IsValue(c)
    /\ CellOk(hp, ms, c, Len(hp))
    /\ \A i \in 0 .. (Len(hp) - 1) : Cardinality(Blocks(hp, ms, c, i)) <= 1

Input(hp, ms, c) == [heap |-> hp, stack |-> ms, root |-> c]

\* length of the machine stack
MaxStackLen == 1

AtomCells ==
    {atom_as_cell("a", 0), atom_as_cell("f", 1), atom_as_cell("f", 2)}

RefCells(tags, n) == {Cell(t, "", i) : t \in tags, i \in 0 .. (n - 1)}

\* the cells of the machine stack: a stack variable is unbound (refers to
\* itself) or bound to a heap cell
StackCells(n, s) ==
    {stack_loc_as_cell(i) : i \in 0 .. (s - 1)} \cup {heap_loc_as_cell(i) : i \in 0 .. (n - 1)}

DefaultStack == [i \in 1 .. MaxStackLen |-> stack_loc_as_cell(i - 1)]

UsesStack(hp, c) == c.tag = "StackVar" \/ \E i \in 1 .. Len(hp) : hp[i].tag = "StackVar"

StacksFor(hp, c) ==
    IF UsesStack(hp, c)
    THEN [1 .. MaxStackLen -> StackCells(Len(hp), MaxStackLen)]
    ELSE {DefaultStack}

\* every heap of MaxHeapLen cells of any kind whose references stay inside
\* the heap, laid out as a term or not
AnyCells ==
    RefCells({"Str", "Lis", "Var", "AttrVar", "PStrLoc", "PStrOffset"}, MaxHeapLen)
    \cup {stack_loc_as_cell(i) : i \in 0 .. (MaxStackLen - 1)}
    \cup AtomCells
    \cup {pstr_as_cell("abc"), fixnum_as_cell(0)}

AnyInputs ==
    UNION {{Input(hp, ms, c) : ms \in StacksFor(hp, c)} :
           hp \in [1 .. MaxHeapLen -> AnyCells], c \in AnyCells}

\* every well-formed heap of MaxTermLen cells
MaxTermLen == 2

TermCells ==
    RefCells({"Str", "Lis", "Var", "PStrLoc", "PStrOffset"}, MaxTermLen)
    \cup AtomCells
    \cup {pstr_as_cell("abc"), fixnum_as_cell(0)}

TermInputs ==
    {inp \in {Input(hp, DefaultStack, c) : hp \in [1 .. MaxTermLen -> TermCells], c \in TermCells} :
        WellFormed(inp.heap, inp.stack, inp.root)}

\* the heaps of the tests of src/heap_iter.rs
a_atom == atom_as_cell("a", 0)
b_atom == atom_as_cell("b", 0)

functor(name, args) == <<atom_as_cell(name, Len(args))>> \o args

TestInputs ==
    { Input(functor("f", <<a_atom, b_atom>>), DefaultStack, str_loc_as_cell(0)),
      Input(functor("f", <<a_atom, b_atom, a_atom, str_loc_as_cell(0)>>),
            DefaultStack, str_loc_as_cell(0)),
      Input(<<heap_loc_as_cell(0)>>, DefaultStack, heap_loc_as_cell(0)),
      Input(<<heap_loc_as_cell(1), heap_loc_as_cell(0)>>, DefaultStack, heap_loc_as_cell(0)),
      Input(<<list_loc_as_cell(1), a_atom, list_loc_as_cell(3), b_atom, empty_list_as_cell>>,
            DefaultStack, heap_loc_as_cell(0)),
      Input(<<list_loc_as_cell(1), a_atom, list_loc_as_cell(3), b_atom, heap_loc_as_cell(0)>>,
            DefaultStack, heap_loc_as_cell(0)),
      Input(<<pstr_as_cell("abc "), heap_loc_as_cell(1)>>, DefaultStack, heap_loc_as_cell(0)),
      Input(<<pstr_as_cell("abc "), pstr_loc_as_cell(2), pstr_as_cell("def"), heap_loc_as_cell(3)>>,
            DefaultStack, heap_loc_as_cell(0)),
      Input(<<pstr_as_cell("abc "), pstr_loc_as_cell(2), pstr_as_cell("def"), pstr_loc_as_cell(4),
              pstr_offset_as_cell(0), fixnum_as_cell(0)>>,
            DefaultStack, pstr_loc_as_cell(0)),
      Input(<<pstr_as_cell("abc "), pstr_loc_as_cell(2), pstr_as_cell("def"), pstr_loc_as_cell(4),
              pstr_offset_as_cell(0), fixnum_as_cell(1)>>,
            DefaultStack, pstr_loc_as_cell(0)),
      Input(<<list_loc_as_cell(1), str_loc_as_cell(5), list_loc_as_cell(3), str_loc_as_cell(5),
              empty_list_as_cell>> \o functor("f", <<a_atom, b_atom, b_atom>>),
            DefaultStack, heap_loc_as_cell(0)),
      Input(<<list_loc_as_cell(1), str_loc_as_cell(5), list_loc_as_cell(3), str_loc_as_cell(5),
              list_loc_as_cell(1)>> \o functor("f", <<a_atom, b_atom, b_atom>>),
            DefaultStack, heap_loc_as_cell(0)),
      Input(<<list_loc_as_cell(1), list_loc_as_cell(1), list_loc_as_cell(1)>>,
            DefaultStack, heap_loc_as_cell(0)),
      Input(<<pstr_as_cell("a string"), empty_list_as_cell>>, DefaultStack, heap_loc_as_cell(0)),
      Input(<<str_loc_as_cell(1), atom_as_cell("g", 2), heap_loc_as_cell(0), atom_as_cell("y", 0),
              atom_as_cell("=", 2), atom_as_cell("X", 0), heap_loc_as_cell(0),
              list_loc_as_cell(8), str_loc_as_cell(4), empty_list_as_cell>>,
            DefaultStack, heap_loc_as_cell(0)) }

\* f(g(a), [b], c): arguments that produce more than one cell each
NestedInputs ==
    { Input(functor("f", <<str_loc_as_cell(4), list_loc_as_cell(6), atom_as_cell("c", 0)>>)
            \o functor("g", <<a_atom>>) \o <<b_atom, empty_list_as_cell>>,
            DefaultStack, str_loc_as_cell(0)) }

\* elements of the enumerated lists
MaxListLen == 3

\* the list of n elements a, b, a, ... laid out as in the tests: heap[0] is
\* the first Lis, the cons pairs follow, the final tail is the cell last
ListCells(n, last) ==
    <<list_loc_as_cell(1)>>
    \o [i \in 1 .. 2 * n |->
           IF i % 2 = 1 THEN (IF i % 4 = 1 THEN a_atom ELSE b_atom)
           ELSE IF i = 2 * n THEN last
           ELSE list_loc_as_cell(i + 1)]

\* [a], [a, b], ... ending in the empty list
ProperListInputs ==
    {Input(ListCells(n, empty_list_as_cell), DefaultStack, heap_loc_as_cell(0)) :
        n \in 1 .. MaxListLen}

\* the same lists with the final tail referring back to the first Lis
BackRefs == {heap_loc_as_cell(0), list_loc_as_cell(1)}

CyclicListInputs ==
    {Input(ListCells(n, last), DefaultStack, heap_loc_as_cell(0)) :
        n \in 1 .. MaxListLen, last \in BackRefs}

\* g(S, S) with S = f(a): one structure referred to by two arguments
SharedArgInputs ==
    { Input(functor("g", <<str_loc_as_cell(3), str_loc_as_cell(3)>>) \o functor("f", <<a_atom>>),
            DefaultStack, str_loc_as_cell(0)) }

\* a cons pair whose head refers to the pair itself, followed by the tail a
CyclicHeadInputs ==
    { Input(<<list_loc_as_cell(1), list_loc_as_cell(1), a_atom>>,
            DefaultStack, heap_loc_as_cell(0)) }

ShapeInputs == ProperListInputs \cup CyclicListInputs \cup SharedArgInputs \cup CyclicHeadInputs

\* reference cells whose index lies outside a heap of MaxHeapLen cells and
\* its root, or outside the machine stack
DanglingCells ==
    (RefCells({"Str", "Lis", "Var", "AttrVar", "PStrLoc"}, MaxHeapLen + 2)
        \ RefCells({"Str", "Lis", "Var", "AttrVar", "PStrLoc"}, MaxHeapLen + 1))
    \cup {stack_loc_as_cell(MaxStackLen)}

\* the heap of MaxHeapLen cells with c first, atoms after it
HeapOf(c) == [i \in 1 .. MaxHeapLen |-> IF i = 1 THEN c ELSE a_atom]

\* a dangling reference as the root, in heap[0] under a root that leads to
\* it, or in the machine stack under the root StackVar(0)
DanglingInputs ==
    {Input(HeapOf(a_atom), DefaultStack, c) : c \in DanglingCells}
    \cup {Input(HeapOf(c), DefaultStack, r) :
             c \in DanglingCells,
             r \in {heap_loc_as_cell(0), list_loc_as_cell(0), stack_loc_as_cell(0)}}
    \cup {Input(HeapOf(a_atom), [i \in 1 .. MaxStackLen |-> c], stack_loc_as_cell(0)) :
             c \in DanglingCells}

\* segments of a partial-string chain
MaxSegments == 2

SegmentNames == <<"abc ", "def", "ghi", "jkl">>

\* n segments, the PStr of segment i at 2 * (i - 1) with its tail after it:
\* a link of the given tag to the next segment, or the final tail
PStrChain(n, link, last) ==
    [i \in 1 .. 2 * n |->
        IF i % 2 = 1 THEN pstr_as_cell(SegmentNames[(i + 1) \div 2])
        ELSE IF i = 2 * n THEN last
        ELSE Cell(link, "", i)]

\* chains ending in a variable tail referring to itself, in [] or in a
\* PStrOffset pair, from a root referring to the first segment
PStrChainInputs ==
    UNION {{Input(PStrChain(n, link, last), DefaultStack, r) :
               link \in {"PStrLoc", "Var"},
               last \in {heap_loc_as_cell(2 * n - 1), empty_list_as_cell},
               r \in {heap_loc_as_cell(0), pstr_loc_as_cell(0)}} :
           n \in 1 .. MaxSegments}
    \cup {Input(PStrChain(n, link, pstr_loc_as_cell(2 * n))
                 \o <<pstr_offset_as_cell(0), fixnum_as_cell(k)>>,
                 DefaultStack, pstr_loc_as_cell(0)) :
             n \in 1 .. MaxSegments, link \in {"PStrLoc", "Var"}, k \in 0 .. 1}

\* a PStrOffset pair after a chain, the root referring to the pair
PStrOffsetInputs ==
    {Input(PStrChain(n, "PStrLoc", empty_list_as_cell)
               \o <<pstr_offset_as_cell(2 * (n - 1)), fixnum_as_cell(k)>>,
           DefaultStack, pstr_loc_as_cell(2 * n)) :
        n \in 1 .. MaxSegments, k \in 0 .. 1}

Inputs ==
    AnyInputs \cup TermInputs \cup TestInputs \cup NestedInputs \cup ShapeInputs
    \cup DanglingInputs \cup PStrChainInputs \cup PStrOffsetInputs

----------------------------------------------------------------------------
(* Init and the actions *)

Init ==
    \E inp \in Inputs :
        /\ heap = inp.heap
        /\ heap0 = inp.heap
        /\ machine_stack = inp.stack
        /\ root = inp.root
        /\ pc = "idle"
        /\ kind = "pre"
        /\ stack = <<>>
        /\ h = iterable_loc(0, "Heap")
        /\ focus = iterable_loc(0, "Heap")
        /\ base_iter_valid = TRUE
        /\ parent_stack = <<>>
        /\ ret = NoCall
        /\ out = <<>>
        /\ out_foci = <<>>
        /\ prev = <<>>
        /\ has_prev = FALSE
        /\ runs = 0
        /\ extra = 0
        /\ op = "init"
        /\ answer = <<>>
        /\ discarded = <<>>

\* stackful_preorder_iter / stackful_post_order_iter, k telling which
New(k) ==
    /\ pc = "idle"
    /\ runs < MaxRuns
    /\ runs > 0 => (ret = None /\ k = kind)
    /\ LET po == stackful_post_order_iter(heap, machine_stack, root)
       IN /\ heap' = po.base_iter.heap
          /\ stack' = po.base_iter.stack
          /\ h' = po.base_iter.h
          /\ focus' = po.focus
          /\ base_iter_valid' = po.base_iter_valid
          /\ parent_stack' = po.parent_stack
    /\ kind' = k
    /\ pc' = "live"
    /\ ret' = NoCall
    /\ prev' = IF runs > 0 THEN out ELSE <<>>
    /\ has_prev' = (runs > 0)
    /\ out' = <<>>
    /\ out_foci' = <<>>
    /\ runs' = runs + 1
    /\ extra' = 0
    /\ op' = "new"
    /\ answer' = <<>>
    /\ discarded' = <<>>
    /\ UNCHANGED <<root, machine_stack, heap0>>

NewPre == New("pre")
NewPost == New("post")

Record(r, f) ==
    /\ pc' = EndPc(r.end)
    /\ ret' = r.ret
    /\ out' = IF r.end = "some" THEN Append(out, r.ret) ELSE out
    /\ out_foci' = IF r.end = "some" THEN Append(out_foci, f) ELSE out_foci
    /\ extra' = IF ret = None THEN extra + 1 ELSE extra
    /\ op' = "next"
    /\ answer' = <<>>
    /\ UNCHANGED discarded

CanCall ==
    /\ pc = "live"
    /\ Len(out) < MaxYield
    /\ ret = None => extra < MaxExtra

\* next on the pre-order iterator
PreNext ==
    /\ CanCall
    /\ kind = "pre"
    /\ \E r \in {pre_next(TheIter)} :
          /\ heap' = r.it.heap
          /\ machine_stack' = r.it.machine_stack
          /\ stack' = r.it.stack
          /\ h' = r.it.h
          /\ Record(r, r.it.h)
    /\ UNCHANGED <<kind, root, focus, base_iter_valid, parent_stack, heap0,
                   prev, has_prev, runs>>

\* next on the post-order iterator
PostNext ==
    /\ CanCall
    /\ kind = "post"
    /\ \E r \in {post_next(ThePost)} :
          /\ heap' = r.it.base_iter.heap
          /\ machine_stack' = r.it.base_iter.machine_stack
          /\ stack' = r.it.base_iter.stack
          /\ h' = r.it.base_iter.h
          /\ focus' = r.it.focus
          /\ base_iter_valid' = r.it.base_iter_valid
          /\ parent_stack' = r.it.parent_stack
          /\ Record(r, r.it.focus)
    /\ UNCHANGED <<kind, root, heap0, prev, has_prev, runs>>

\* the iterator goes out of scope: Drop for StackfulPreOrderHeapIter
Drop ==
    /\ pc = "live"
    /\ \E a \in {pre_drop(TheIter)} :
          /\ heap' = a.heap
          /\ machine_stack' = a.machine_stack
          /\ stack' = a.stack
          /\ pc' = IF a.panic THEN "panic" ELSE "idle"
    /\ op' = "drop"
    /\ answer' = <<>>
    /\ UNCHANGED discarded
    /\ UNCHANGED <<kind, root, h, focus, base_iter_valid, parent_stack, heap0,
                   ret, out, out_foci, prev, has_prev, runs, extra>>

\* a panic inside next unwinds through the iterator's Drop; a second panic
\* inside that Drop aborts the process
Unwind ==
    /\ pc = "panic"
    /\ op \in {"next", "pop_stack", "stack_last"}
    /\ \E a \in {pre_drop(TheIter)} :
          /\ heap' = a.heap
          /\ machine_stack' = a.machine_stack
          /\ stack' = a.stack
          /\ pc' = IF a.panic THEN "abort" ELSE "unwound"
    /\ op' = "unwind"
    /\ answer' = <<>>
    /\ UNCHANGED discarded
    /\ UNCHANGED <<kind, root, h, focus, base_iter_valid, parent_stack, heap0,
                   ret, out, out_foci, prev, has_prev, runs, extra>>

\* pop_stack on the post-order iterator
PostPopStack ==
    /\ pc = "live"
    /\ kind = "post"
    /\ \E po \in {post_pop_stack(ThePost)} :
          /\ heap' = po.base_iter.heap
          /\ machine_stack' = po.base_iter.machine_stack
          /\ stack' = po.base_iter.stack
          /\ h' = po.base_iter.h
          /\ parent_stack' = po.parent_stack
          /\ pc' = IF po.base_iter.panic THEN "panic" ELSE "live"
          /\ discarded' = IF Len(po.parent_stack) < Len(parent_stack)
                          THEN Append(discarded, <<Last(parent_stack).focus, Len(out)>>)
                          ELSE discarded
    /\ op' = "pop_stack"
    /\ answer' = <<>>
    /\ UNCHANGED <<kind, root, focus, base_iter_valid, heap0,
                   ret, out, out_foci, prev, has_prev, runs, extra>>

\* direct_subterm_of_str(idx_loc) on the post-order iterator
DirectSubtermOfStr ==
    /\ pc = "live"
    /\ kind = "post"
    /\ \E idx_loc \in 0 .. Len(heap) :
          answer' = <<idx_loc, direct_subterm_of_str(ThePost, idx_loc)>>
    /\ op' = "direct_subterm_of_str"
    /\ UNCHANGED <<pc, kind, root, heap, machine_stack, stack, h, focus, base_iter_valid,
                   parent_stack, heap0, ret, out, out_foci, prev, has_prev, runs, extra,
                   discarded>>

Next ==
    \/ NewPre
    \/ NewPost
    \/ PreNext
    \/ PostNext
    \/ Drop
    \/ Unwind

Spec == Init /\ [][Next]_vars

(* The post-order iterator with the operations of its consumers, on heaps  *)
(* laid out as terms.                                                      *)
OpsInputs == TermInputs \cup TestInputs \cup NestedInputs \cup ShapeInputs

InitOps == Init /\ Input(heap, machine_stack, root) \in OpsInputs

\* the one post-order iterator of a behaviour
OpenPost == runs = 0 /\ NewPost

NextOps ==
    \/ OpenPost
    \/ PostNext
    \/ PostPopStack
    \/ DirectSubtermOfStr
    \/ Drop

SpecOps == InitOps /\ [][NextOps]_vars

(* StackfulPreOrderHeapIter::stack_last: the work list is read from its top *)
(* down, the entries whose cell is just marked are passed over; the result *)
(* is [loc, panic], loc holding the location found, if any.                *)
RECURSIVE stack_last_from(_, _)
stack_last_from(it, i) ==
    IF i = 0 THEN [loc |-> <<>>, panic |-> FALSE]
    ELSE IF ~InRange(it, it.stack[i]) THEN [loc |-> <<>>, panic |-> TRUE]
    ELSE IF get_forwarding_bit(read_cell(it, it.stack[i]))
    THEN [loc |-> <<it.stack[i]>>, panic |-> FALSE]
    ELSE IF get_mark_bit(read_cell(it, it.stack[i])) /\ ~is_marked(it.stack[i])
    THEN stack_last_from(it, i - 1)
    ELSE [loc |-> <<it.stack[i]>>, panic |-> FALSE]

stack_last(it) == stack_last_from(it, Len(it.stack))

\* pop_stack on the pre-order iterator
PrePopStack ==
    /\ pc = "live"
    /\ kind = "pre"
    /\ \E r \in {pop_stack(TheIter)} :
          /\ heap' = r.it.heap
          /\ machine_stack' = r.it.machine_stack
          /\ stack' = r.it.stack
          /\ h' = r.it.h
          /\ pc' = IF r.it.panic THEN "panic" ELSE "live"
          /\ answer' = IF r.end = "some" THEN <<r.ret>> ELSE <<>>
    /\ op' = "pop_stack"
    /\ UNCHANGED <<kind, root, focus, base_iter_valid, parent_stack, heap0,
                   ret, out, out_foci, prev, has_prev, runs, extra, discarded>>

\* stack_last on the pre-order iterator
StackLast ==
    /\ pc = "live"
    /\ kind = "pre"
    /\ \E r \in {stack_last(TheIter)} :
          /\ answer' = r.loc
          /\ pc' = IF r.panic THEN "panic" ELSE "live"
    /\ op' = "stack_last"
    /\ UNCHANGED <<kind, root, heap, machine_stack, stack, h, focus, base_iter_valid,
                   parent_stack, heap0, ret, out, out_foci, prev, has_prev, runs, extra,
                   discarded>>

(* The pre-order iterator with the operations of its consumers: next,      *)
(* pop_stack and stack_last in any order, then drop.                       *)
\* the one pre-order iterator of a behaviour
OpenPre == runs = 0 /\ NewPre

NextPre ==
    \/ OpenPre
    \/ PreNext
    \/ PrePopStack
    \/ StackLast
    \/ Drop
    \/ Unwind

\* a stack variable as the root over every heap of MaxHeapLen cells of any
\* kind and every machine stack
StackRootInputs == {inp \in AnyInputs : inp.root.tag = "StackVar"}

PreInputs ==
    TermInputs \cup TestInputs \cup NestedInputs \cup ShapeInputs
    \cup DanglingInputs \cup PStrChainInputs \cup PStrOffsetInputs
    \cup StackRootInputs

InitPre == Init /\ Input(heap, machine_stack, root) \in PreInputs

SpecPre == InitPre /\ [][NextPre]_vars

----------------------------------------------------------------------------
(* Properties *)

Cells == {heap[i] : i \in 1 .. Len(heap)} \cup {machine_stack[i] : i \in 1 .. Len(machine_stack)}

\* all_cells_unmarked of the tests, extended to the machine stack
AllUnmarked == \A c \in Cells : ~get_mark_bit(c) /\ ~get_forwarding_bit(c)

WF0 == WellFormed(heap0, machine_stack, root)

\* C1 (BitClean): whenever no iterator is alive - before construction and
\* after a pre-order or post-order iterator was dropped, fully consumed or
\* not - every heap cell and every machine-stack cell has mark = false and
\* forwarding = false.
C1_BitClean == pc = "idle" => AllUnmarked

\* an iterator that had yielded cells and had not reached the end was dropped
C1_Witness ==
    /\ pc = "idle" /\ op = "drop" /\ kind = "post"
    /\ Len(out) >= 2 /\ ret # None /\ AllUnmarked

Node(hs, i) == <<hs, i>>

CellOf(x) == IF x[1] = "Heap" THEN Append(heap0, root)[x[2] + 1] ELSE machine_stack[x[2] + 1]

Succ(x) ==
    LET c == CellOf(x)
    IN IF c.tag \in {"Str", "PStrLoc", "Var", "AttrVar"} THEN {Node("Heap", c.val)}
       ELSE IF c.tag = "StackVar" THEN {Node("Stack", c.val)}
       ELSE IF c.tag = "Lis" THEN {Node("Heap", c.val), Node("Heap", c.val + 1)}
       ELSE IF c.tag = "Atom" THEN {Node("Heap", x[2] + i) : i \in 1 .. c.val}
       ELSE IF c.tag = "PStr" THEN {Node("Heap", x[2] + 1)}
       ELSE IF c.tag = "PStrOffset" THEN {Node("Heap", c.val), Node("Heap", x[2] + 1)}
       ELSE {}

RECURSIVE Closure(_)
Closure(S) ==
    LET T == S \cup UNION {Succ(x) : x \in S}
    IN IF T = S THEN S ELSE Closure(T)

RootNode == Node("Heap", Len(heap0))

\* no cell reachable from the root lies on a cycle of references
Acyclic == \A x \in Closure({RootNode}) : x \notin Closure(Succ(x))

Sentinels(s) == {i \in 1 .. Len(s) : get_forwarding_bit(s[i])}

\* C4 (yield-forwarding correspondence), on terms without any cycle: no
\* reference of an acyclic term has its target among the cells from the root
\* down to it, so the pre-order iterator yields no cell with forwarding = true.
C4_SentinelOnlyOnCycle ==
    (kind = "pre" /\ Sentinels(out) # {}) => (WF0 => ~Acyclic)

----------------------------------------------------------------------------
\* the location of the root cell
RootLoc == iterable_loc(Len(heap0), "Heap")

MachineStack0 == [i \in 1 .. Len(machine_stack) |-> unmark_cell_bits(machine_stack[i])]

\* C5 (sentinel lifecycle): construction appends exactly the root cell at
\* index h0 = Len(heap0), seeds the work list with the single Iterable entry
\* (Heap, h0) and sets the focus to (Heap, h0); while the iterator is alive
\* the heap has h0 + 1 cells, the last being the root; after drop it has h0.
C5_SentinelLifecycle ==
    /\ op = "new" =>
          /\ heap = Append(heap0, root)
          /\ stack = <<RootLoc>>
          /\ h = RootLoc
    /\ pc \in {"live", "hang", "fuel"} =>
          /\ Len(heap) = Len(heap0) + 1
          /\ unmark_cell_bits(heap[Len(heap0) + 1]) = root
    /\ pc \in {"idle", "unwound"} => Len(heap) = Len(heap0)

\* an iterator over at least three cells was dropped before its end
C5_Witness ==
    /\ op = "drop" /\ pc = "idle" /\ kind = "pre"
    /\ Len(out) >= 3 /\ ret # None /\ Len(heap) = Len(heap0)

----------------------------------------------------------------------------
(* The stream of the pre-order iterator, entry by entry.  Whatever lies    *)
(* below an entry of the work list is not touched until the entry and all  *)
(* it pushed are worked off, so an entry produces a stream of its own:     *)
(* [it, out, ok], ok = FALSE when MaxDepth is exceeded or an index is out  *)
(* of range.  A structure header produces itself and then the streams of   *)
(* its arguments l + 1, ..., l + n, one after the other.                   *)

\* nesting of work-list entries followed by the reference stream
MaxDepth == 30

Produced(it, o, ok) == [it |-> it, out |-> o, ok |-> ok]

\* the entry e, in state it, is about to visit a structure header
IsHeaderVisit(it, e) ==
    /\ ~is_pending_mark(e)
    /\ e.heap_or_stack = "Heap"
    /\ InRange(it, e)
    /\ LET c == read_cell(it, e)
       IN /\ c.tag = "Atom" /\ c.val > 0
          /\ ~get_forwarding_bit(c)
          /\ ~(get_mark_bit(c) /\ ~is_marked(e))

RECURSIVE EntryStream(_, _, _)
RECURSIVE EntriesStream(_, _, _)
RECURSIVE ArgsStream(_, _, _, _, _)

\* the cells produced by the arguments at l + k, ..., l + n, in that order
ArgsStream(it, l, k, n, depth) ==
    IF k > n THEN Produced(it, <<>>, TRUE)
    ELSE LET a == EntryStream(it, pending_mark_loc(l + k, "Heap"), depth)
         IN IF ~a.ok THEN a
            ELSE LET b == ArgsStream(a.it, l, k + 1, n, depth)
                 IN Produced(b.it, a.out \o b.out, b.ok)

\* the cells produced by the entries es, worked off from the last to the first
EntriesStream(it, es, depth) ==
    IF es = <<>> THEN Produced(it, <<>>, TRUE)
    ELSE LET a == EntryStream(it, Last(es), depth)
         IN IF ~a.ok THEN a
            ELSE LET b == EntriesStream(a.it, Front(es), depth)
                 IN Produced(b.it, a.out \o b.out, b.ok)

\* the cells produced by the entry e
EntryStream(it, e, depth) ==
    IF depth = 0 THEN Produced(it, <<>>, FALSE)
    ELSE IF IsHeaderVisit(it, e)
    THEN LET c == read_cell(it, e)
             r == ArgsStream([it EXCEPT !.h = e], e.value, 1, c.val, depth - 1)
         IN Produced(r.it, <<c>> \o r.out, r.ok)
    ELSE LET r == follow_step([it EXCEPT !.stack = <<e>>])
             ys == IF r.k = "yield" THEN <<r.ret>> ELSE <<>>
         IN IF r.it.panic THEN Produced(r.it, <<>>, FALSE)
            ELSE LET rest == EntriesStream([r.it EXCEPT !.stack = <<>>], r.it.stack, depth - 1)
                 IN Produced(rest.it, ys \o rest.out, rest.ok)

ExpectedStream ==
    EntryStream(Iter(Append(heap0, root), MachineStack0, <<>>, RootLoc), RootLoc, MaxDepth)

\* C6 (left-to-right arguments): the stream of a fully consumed pre-order
\* iterator is the one in which every structure header Atom(name, n), n > 0,
\* reached at heap index l is followed by all the cells of its argument
\* l + 1, then all those of l + 2, ..., then all those of l + n.
C6_LeftToRight ==
    (kind = "pre" /\ pc = "live" /\ ret = None) =>
        (ExpectedStream.ok /\ out = ExpectedStream.out)

\* f(g(a), [b], c) was traversed to its end
C6_Witness ==
    /\ kind = "pre" /\ pc = "live" /\ ret = None
    /\ Input(heap0, machine_stack, root) \in NestedInputs
    /\ Len(out) = 7
    /\ out[1].tag = "Atom" /\ out[1].val = 3

----------------------------------------------------------------------------
\* C7 (focus): after every pre-order next call that returned a cell, focus()
\* is the location that cell was read from: the cell stored there is the
\* yielded cell, mark and forwarding bits aside; so it is for every earlier
\* yield of the iterator and the focus noted after it.
C7_Focus ==
    (kind = "pre" /\ pc = "live" /\ op = "next") =>
        /\ ret # None =>
              /\ InRange(TheIter, TheFocus)
              /\ unmark_cell_bits(read_cell(TheIter, TheFocus)) = unmark_cell_bits(ret)
        /\ \A i \in 1 .. Len(out) :
              /\ InRange(TheIter, out_foci[i])
              /\ unmark_cell_bits(read_cell(TheIter, out_foci[i])) = unmark_cell_bits(out[i])

\* the third cell of a stream was yielded from a cell of the original heap
C7_Witness ==
    /\ kind = "pre" /\ pc = "live" /\ op = "next" /\ ret # None
    /\ Len(out) >= 3
    /\ h.heap_or_stack = "Heap" /\ h.value < Len(heap0)

----------------------------------------------------------------------------
\* C8 (fused end): once next has returned nothing, a further next call on
\* the same pre-order or post-order iterator returns nothing and changes no
\* heap cell, no machine-stack cell, neither the work list nor the parent
\* stack, and no focus.
C8_FusedEnd ==
    [][(pc = "live" /\ ret = None /\ op' = "next") =>
          /\ ret' = None
          /\ pc' = "live"
          /\ UNCHANGED <<heap, machine_stack, stack, parent_stack, h, focus,
                         base_iter_valid, out>>]_vars

\* two more next calls were made on a post-order iterator after its end
C8_Witness ==
    /\ kind = "post" /\ pc = "live" /\ ret = None
    /\ extra = MaxExtra /\ Len(out) >= 2

----------------------------------------------------------------------------
\* the heap of f(a, b, a, Str(0)) and its stream
CyclicF == functor("f", <<a_atom, b_atom, a_atom, str_loc_as_cell(0)>>)

CyclicFStream ==
    <<atom_as_cell("f", 4), a_atom, b_atom, a_atom,
      set_forwarding_bit(str_loc_as_cell(0), TRUE)>>

IsPrefix(s, t) == Len(s) <= Len(t) /\ SubSeq(t, 1, Len(s)) = s

\* C9 (repeatability): an iterator built on the same heap with the same root
\* after the previous one was fully consumed and dropped yields the same
\* stream, forwarding bits included, cell by cell to the same end; the
\* pre-order stream of f(a, b, a, Str(0)) is f/4, a, b, a, Str(0) with
\* forwarding set.
C9_Repeatability ==
    /\ (has_prev /\ pc \in {"live", "idle"}) => IsPrefix(out, prev)
    /\ (has_prev /\ pc = "live" /\ ret = None) => out = prev
    /\ has_prev => pc \in {"live", "idle"}
    /\ (kind = "pre" /\ pc = "live" /\ ret = None
          /\ heap0 = CyclicF /\ root = str_loc_as_cell(0)) =>
          [i \in 1 .. Len(out) |-> set_mark_bit(out[i], FALSE)] = CyclicFStream

\* the second iterator on a cyclic term came to its end
C9_Witness ==
    /\ has_prev /\ runs = MaxRuns /\ pc = "live" /\ ret = None
    /\ Len(out) >= 4
    /\ Sentinels(out) # {}

----------------------------------------------------------------------------
(* Variable chains *)

VarTags == {"Var", "AttrVar", "StackVar"}

\* the node x lies inside the heap with its root, or inside the machine stack
NodeOk(x) ==
    IF x[1] = "Heap" THEN x[2] <= Len(heap0) ELSE x[2] < Len(machine_stack)

\* the cell a variable refers to
Target(x) == CHOOSE y \in Succ(x) : TRUE

\* x is a variable and so is every cell its chain of references reaches
RECURSIVE VarsFrom(_, _)
VarsFrom(x, passed) ==
    /\ CellOf(x).tag \in VarTags
    /\ NodeOk(Target(x))
    /\ (Target(x) \in passed \/ VarsFrom(Target(x), passed \cup {Target(x)}))

VarChain == VarsFrom(RootNode, {RootNode})

\* the first cell of the chain from x whose target was passed already
RECURSIVE ClosingNode(_, _)
ClosingNode(x, passed) ==
    IF Target(x) \in passed THEN x
    ELSE ClosingNode(Target(x), passed \cup {Target(x)})

Closing == ClosingNode(Target(RootNode), {Target(RootNode)})

ClosingCell ==
    set_forwarding_bit(set_mark_bit(unmark_cell_bits(CellOf(Closing)), TRUE), TRUE)

\* C10 (variable chains): when the root is a variable whose chain of
\* references runs through variables only - ending in an unbound variable or
\* looping - the pre-order iterator yields exactly one cell, the variable
\* that closes the loop, read at its own location with forwarding = true and
\* mark = true, and then ends.
C10_VariableChains ==
    (kind = "pre" /\ VarChain /\ ret # NoCall) =>
        /\ pc \in {"live", "idle"}
        /\ out = <<ClosingCell>>
        /\ Node(out_foci[1].heap_or_stack, out_foci[1].value) = Closing

\* a chain of two variables: the one the root refers to is passed over
C10_Witness ==
    /\ kind = "pre" /\ VarChain /\ ret = None /\ pc = "live"
    /\ Closing # Target(RootNode)
    /\ Len(out) = 1

----------------------------------------------------------------------------
(* The stream of the pre-order iterator with a list cell taken apart: a    *)
(* visited Lis(vh) produces itself, then the stream of its head at vh,     *)
(* then the stream of its tail at vh + 1; the entry left for vh under them *)
(* is worked off last.  Every other entry is worked off as follow does.    *)

\* the entry e, in state it, is about to visit a list cell
IsLisVisit(it, e) ==
    /\ ~is_pending_mark(e)
    /\ InRange(it, e)
    /\ LET c == read_cell(it, e)
       IN /\ c.tag = "Lis"
          /\ InRange(it, iterable_loc(c.val, "Heap"))
          /\ ~get_forwarding_bit(c)
          /\ ~(get_mark_bit(c) /\ ~is_marked(e))

RECURSIVE ListEntryStream(_, _, _)
RECURSIVE ListEntriesStream(_, _, _)

\* the stream of the head entry hd, then of the tail entry tl, then of the
\* entries below them
HeadThenTail(it, hd, tl, below, depth) ==
    LET a == ListEntryStream(it, hd, depth)
    IN IF ~a.ok THEN a
       ELSE LET b == ListEntryStream(a.it, tl, depth)
            IN IF ~b.ok THEN b
               ELSE LET c == ListEntriesStream(b.it, below, depth)
                    IN Produced(c.it, a.out \o b.out \o c.out, c.ok)

ListEntriesStream(it, es, depth) ==
    IF es = <<>> THEN Produced(it, <<>>, TRUE)
    ELSE LET a == ListEntryStream(it, Last(es), depth)
         IN IF ~a.ok THEN a
            ELSE LET b == ListEntriesStream(a.it, Front(es), depth)
                 IN Produced(b.it, a.out \o b.out, b.ok)

ListEntryStream(it, e, depth) ==
    IF depth = 0 THEN Produced(it, <<>>, FALSE)
    ELSE IF IsLisVisit(it, e)
    THEN LET vh == read_cell(it, e).val
             \* the head is marked and checked for a marked referent
             it1 == forward_if_referent_marked(
                        push_if_unmarked([it EXCEPT !.h = e, !.stack = <<>>],
                                         iterable_loc(vh, "Heap")),
                        iterable_loc(vh, "Heap"))
             r == HeadThenTail([it1 EXCEPT !.stack = <<>>], mark_loc(vh, "Heap"),
                               pending_mark_loc(vh + 1, "Heap"), it1.stack, depth - 1)
         IN IF it1.panic THEN Produced(it1, <<>>, FALSE)
            ELSE Produced(r.it, <<read_cell(it1, e)>> \o r.out, r.ok)
    ELSE LET r == follow_step([it EXCEPT !.stack = <<e>>])
             ys == IF r.k = "yield" THEN <<r.ret>> ELSE <<>>
         IN IF r.it.panic THEN Produced(r.it, <<>>, FALSE)
            ELSE LET rest == ListEntriesStream([r.it EXCEPT !.stack = <<>>], r.it.stack, depth - 1)
                 IN Produced(rest.it, ys \o rest.out, rest.ok)

ExpectedListStream ==
    ListEntryStream(Iter(Append(heap0, root), MachineStack0, <<>>, RootLoc), RootLoc, MaxDepth)

\* the cells of a stream with their mark bits cleared
Unmarked(s) == [i \in 1 .. Len(s) |-> set_mark_bit(s[i], FALSE)]

\* the stream of a fully consumed pre-order iterator against the head-then-tail reading
ListPreOrder ==
    (kind = "pre" /\ pc = "live" /\ ret = None) =>
        /\ ExpectedListStream.ok
        /\ out = ExpectedListStream.out
        /\ (heap0 = ListCells(2, empty_list_as_cell) /\ root = heap_loc_as_cell(0)) =>
              Unmarked(out) = ListCells(2, empty_list_as_cell)

\* C11 (list pre-order): the stream of a fully consumed pre-order iterator is
\* the one in which every list cell Lis(vh) is followed by all the cells of
\* its head at vh and then by all the cells of its tail at vh + 1; for
\* [Lis(1), a, Lis(3), b, EmptyList] with root heap_loc(0) it is exactly
\* Lis(1), a, Lis(3), b, EmptyList, without any forwarding bit.
C11_ListPreOrder == []ListPreOrder

\* the list [a, b, a] was traversed to its end
C11_Witness ==
    /\ kind = "pre" /\ pc = "live" /\ ret = None
    /\ heap0 = ListCells(3, empty_list_as_cell) /\ root = heap_loc_as_cell(0)
    /\ Len(out) = 7

----------------------------------------------------------------------------
\* the heap is a list of the tests' layout whose final tail refers back to
\* the first Lis, and the root refers to heap[0]
IsCyclicList ==
    /\ root = heap_loc_as_cell(0)
    /\ \E n \in 1 .. MaxListLen : \E last \in BackRefs : heap0 = ListCells(n, last)

\* the stream on a list whose final tail refers back to its first Lis
CyclicListStream ==
    (kind = "pre" /\ IsCyclicList) =>
        /\ pc \in {"idle", "live"}
        /\ IsPrefix(Unmarked(out),
                    [heap0 EXCEPT ![Len(heap0)] = set_forwarding_bit(@, TRUE)])
        /\ (pc = "live" /\ ret = None) => Len(out) = Len(heap0)
        /\ (heap0 = ListCells(2, heap_loc_as_cell(0)) /\ pc = "live" /\ ret = None) =>
              Unmarked(out) = <<list_loc_as_cell(1), a_atom, list_loc_as_cell(3), b_atom,
                                set_forwarding_bit(heap_loc_as_cell(0), TRUE)>>

----------------------------------------------------------------------------
(* The cells of the term at a node, every reference expanded in full:     *)
(* the pre-order reading of section 3 of the specification.               *)
RECURSIVE TermStream(_, _)
RECURSIVE TermsStream(_, _, _)

\* the terms at heap locations from .. to, one after the other
TermsStream(from, to, depth) ==
    IF from > to THEN <<>>
    ELSE TermStream(Node("Heap", from), depth) \o TermsStream(from + 1, to, depth)

TermStream(x, depth) ==
    IF depth = 0 THEN <<>>
    ELSE IF CellOf(x).tag \in {"Str", "PStrLoc", "Var", "AttrVar"}
         THEN TermStream(Node("Heap", CellOf(x).val), depth - 1)
    ELSE IF CellOf(x).tag = "StackVar"
         THEN TermStream(Node("Stack", CellOf(x).val), depth - 1)
    ELSE IF CellOf(x).tag = "Lis"
         THEN <<CellOf(x)>> \o TermStream(Node("Heap", CellOf(x).val), depth - 1)
                            \o TermStream(Node("Heap", CellOf(x).val + 1), depth - 1)
    ELSE IF CellOf(x).tag = "Atom"
         THEN <<CellOf(x)>> \o TermsStream(x[2] + 1, x[2] + CellOf(x).val, depth - 1)
    ELSE IF CellOf(x).tag \in {"PStr", "PStrOffset"}
         THEN <<CellOf(x)>> \o TermStream(Node("Heap", x[2] + 1), depth - 1)
    ELSE <<CellOf(x)>>

\* the references below the root are Str, Lis and PStrLoc cells: a variable
\* occurs at the root only
VarOnlyAtRoot ==
    \A x \in Closure({RootNode}) \ {RootNode} : CellOf(x).tag \notin VarTags

\* some structure header is the target of two different Str cells of the term
SharedStr ==
    \E x, y \in Closure({RootNode}) :
        /\ x # y
        /\ CellOf(x).tag = "Str" /\ CellOf(y).tag = "Str"
        /\ CellOf(x).val = CellOf(y).val

\* the stream on an acyclic term against the reading that expands every reference
SharedExpanded ==
    (kind = "pre" /\ WF0 /\ Acyclic /\ VarOnlyAtRoot) =>
        /\ Sentinels(out) = {}
        /\ IsPrefix(Unmarked(out), TermStream(RootNode, MaxDepth))
        /\ (pc = "live" /\ ret = None) => Unmarked(out) = TermStream(RootNode, MaxDepth)
        /\ (<<heap0, root>> \in {<<i.heap, i.root>> : i \in SharedArgInputs}
              /\ pc = "live" /\ ret = None) =>
              Unmarked(out) = <<atom_as_cell("g", 2), atom_as_cell("f", 1), a_atom,
                                atom_as_cell("f", 1), a_atom>>

\* C13 (sharing is not a cycle): on an acyclic term a structure referred to
\* by Str cells from two list elements or two arguments is expanded in full
\* at each reference, header and all arguments both times, and no cell of
\* the pre-order stream carries the forwarding bit; g(S, S) with S = f(a)
\* gives g/2, f/1, a, f/1, a.
C13_SharingNotCycle == []SharedExpanded

\* the list of the tests whose two elements refer to one f(a, b, b) was
\* traversed to its end
C13_Witness ==
    /\ kind = "pre" /\ WF0 /\ Acyclic /\ VarOnlyAtRoot /\ SharedStr
    /\ pc = "live" /\ ret = None
    /\ Len(out) = 11

----------------------------------------------------------------------------
(* The cells of the term at a node with every compound parent after the   *)
(* cells of its child subtrees, the subtrees from left to right.          *)
RECURSIVE PostStream(_, _)
RECURSIVE PostsStream(_, _, _)

PostsStream(from, to, depth) ==
    IF from > to THEN <<>>
    ELSE PostStream(Node("Heap", from), depth) \o PostsStream(from + 1, to, depth)

PostStream(x, depth) ==
    IF depth = 0 THEN <<>>
    ELSE IF CellOf(x).tag \in {"Str", "PStrLoc", "Var", "AttrVar"}
         THEN PostStream(Node("Heap", CellOf(x).val), depth - 1)
    ELSE IF CellOf(x).tag = "StackVar"
         THEN PostStream(Node("Stack", CellOf(x).val), depth - 1)
    ELSE IF CellOf(x).tag = "Lis"
         THEN PostStream(Node("Heap", CellOf(x).val), depth - 1)
              \o PostStream(Node("Heap", CellOf(x).val + 1), depth - 1)
              \o <<CellOf(x)>>
    ELSE IF CellOf(x).tag = "Atom"
         THEN PostsStream(x[2] + 1, x[2] + CellOf(x).val, depth - 1) \o <<CellOf(x)>>
    ELSE IF CellOf(x).tag \in {"PStr", "PStrOffset"}
         THEN PostStream(Node("Heap", x[2] + 1), depth - 1) \o <<CellOf(x)>>
    ELSE <<CellOf(x)>>

\* the post-order iterator ran to its end
PostEnded == kind = "post" /\ pc = "live" /\ ret = None

\* the post-order stream on an acyclic term against the children-first reading
ChildrenFirst ==
    (kind = "post" /\ WF0 /\ Acyclic /\ VarOnlyAtRoot) =>
        /\ IsPrefix(Unmarked(out), PostStream(RootNode, MaxDepth))
        /\ PostEnded => Unmarked(out) = PostStream(RootNode, MaxDepth)
        /\ (PostEnded /\ heap0 = functor("f", <<a_atom, b_atom>>) /\ root = str_loc_as_cell(0)) =>
              Unmarked(out) = <<a_atom, b_atom, atom_as_cell("f", 2)>>
        /\ (PostEnded /\ heap0 = ListCells(2, empty_list_as_cell) /\ root = heap_loc_as_cell(0)) =>
              Unmarked(out) = <<a_atom, b_atom, empty_list_as_cell,
                                list_loc_as_cell(3), list_loc_as_cell(1)>>

\* C14 (post-order correctness): for an acyclic term the post-order iterator
\* yields every compound parent (Atom of arity n, Lis, PStr, PStrOffset)
\* only after all cells of its n / 2 / 1 child subtrees, the subtrees from
\* left to right; f(a, b) gives a, b, f/2 and the list [a, b] gives a, b,
\* [], Lis(3), Lis(1).
C14_PostOrder == []ChildrenFirst

\* f(g(a), [b], c) was traversed in post-order to its end
C14_Witness ==
    /\ PostEnded /\ WF0 /\ Acyclic /\ VarOnlyAtRoot
    /\ Len(out) = 7
    /\ Unmarked(out)[7] = atom_as_cell("f", 3)

----------------------------------------------------------------------------
(* The stream of the pre-order iterator consumed in full on the heap and   *)
(* root the run started from.                                              *)
RECURSIVE PreDrain(_, _)

\* the answer r of a next call followed by the rest of the stream
PreDrainFrom(r, n) ==
    IF r.end = "some" /\ n > 0 THEN <<r.ret>> \o PreDrain(r.it, n - 1) ELSE <<>>

PreDrain(it, n) == PreDrainFrom(pre_next(it), n)

\* its first n cells, or all of them when it has fewer
PrePrefix(n) == PreDrain(pre_new(heap0, MachineStack0, root), n)

PreStream == PrePrefix(MaxYield + 1)

\* the cells the post-order iterator has pulled from its base
Pulled == Len(out) + Len(parent_stack)

\* how often the cell c occurs in the sequence s
Count(s, c) == Cardinality({i \in 1 .. Len(s) : s[i] = c})

SameMultiset(s, t) ==
    /\ Len(s) = Len(t)
    /\ \A i \in 1 .. Len(s) : Count(s, s[i]) = Count(t, s[i])

\* the nodes of the parent frames, bottom first
FrameNodes == [i \in 1 .. Len(parent_stack) |-> parent_stack[i].node]

\* the cells yielded and waiting in post-order against the pre-order stream
SameCells ==
    (kind = "post" /\ pc = "live") =>
        /\ SameMultiset(out \o FrameNodes, PrePrefix(Pulled))
        /\ ret = None => SameMultiset(out, PrePrefix(Pulled + 1))

\* C15 (post-order is a reordering): consumed in full on the same heap and
\* root, the post-order iterator yields exactly the multiset of cells of
\* the pre-order iterator, forwarding bits included; while it runs, the
\* cells it has yielded and the cells waiting in its parent frames are the
\* cells the pre-order iterator has yielded so far.
C15_Reordering == []SameCells

\* a post-order traversal that moved a parent behind its children and
\* yielded a cell with forwarding = true has ended
C15_Witness ==
    /\ PostEnded
    /\ Len(out) >= 5
    /\ out # PreStream
    /\ Sentinels(out) # {}

----------------------------------------------------------------------------
\* C16 (sentinel is a leaf in post-order): a cell the base iterator yields
\* with forwarding = true, whatever its kind, Lis included, is yielded by
\* the post-order adapter at once as a leaf and gets no parent frame: no
\* frame of the parent stack holds a cell with the forwarding bit.
C16_SentinelIsLeaf ==
    kind = "post" =>
        \A i \in 1 .. Len(parent_stack) : ~get_forwarding_bit(parent_stack[i].node)

----------------------------------------------------------------------------
\* a next call made on the post-order iterator after its base was exhausted
DrainCall == kind = "post" /\ pc = "live" /\ ~base_iter_valid /\ op' = "next"

\* such a call leaves the base iterator alone and yields the parent on top
\* of the parent stack, or nothing when no parent is left
DrainStep ==
    DrainCall =>
        /\ UNCHANGED <<heap, machine_stack, stack, h, base_iter_valid>>
        /\ pc' = "live"
        /\ IF parent_stack = <<>>
           THEN ret' = None /\ parent_stack' = <<>> /\ out' = out
           ELSE /\ ret' = Last(parent_stack).node
                /\ parent_stack' = Front(parent_stack)
                /\ focus' = Last(parent_stack).focus
                /\ out' = Append(out, Last(parent_stack).node)

\* the base is declared exhausted only with an empty work list, and the
\* stream ends only when the base is exhausted and no parent is left
Drained ==
    (kind = "post" /\ pc = "live") =>
        /\ ~base_iter_valid => stack = <<>>
        /\ ret = None => (~base_iter_valid /\ parent_stack = <<>>)

----------------------------------------------------------------------------
\* the cell stored at loc is the cell c, mark and forwarding bits aside
StoredAt(loc, c) ==
    /\ InRange(TheIter, loc)
    /\ unmark_cell_bits(read_cell(TheIter, loc)) = unmark_cell_bits(c)

\* the focus of every waiting parent frame is where its cell is stored
FramesFocused ==
    (kind = "post" /\ pc = "live") =>
        \A i \in 1 .. Len(parent_stack) : StoredAt(parent_stack[i].focus, parent_stack[i].node)

\* a next call on the post-order iterator that yields a cell: a parent that
\* waited in a frame comes with the focus of its frame; a cell pulled from
\* the base in this call comes with the base's current focus, unless the
\* base was called once more and found exhausted before the cell was yielded
PostFocusStep ==
    (kind = "post" /\ pc = "live" /\ op' = "next" /\ pc' = "live" /\ ret' # None) =>
        /\ StoredAt(focus, ret)'
        /\ IF Len(parent_stack') < Len(parent_stack)
           THEN /\ ret' = Last(parent_stack).node
                /\ focus' = Last(parent_stack).focus
           ELSE base_iter_valid' => focus' = h'
        /\ post_frame(ret', focus') = <<>> => focus' = h'

\* C18 (post-order focus): after post-order next yields a parent cell,
\* focus() is the base iterator's focus recorded when that parent was pulled
\* from the base; after it yields a leaf, focus() is the base iterator's
\* current focus; in both cases the cell stored at focus is the yielded
\* cell, mark and forwarding bits aside.
C18_PostFocus ==
    /\ [][PostFocusStep]_vars
    /\ []FramesFocused

\* a structure header was yielded after its arguments, the base's focus
\* being elsewhere
C18_Witness ==
    /\ kind = "post" /\ pc = "live" /\ op = "next"
    /\ ret.tag = "Atom" /\ ret.val >= 2
    /\ focus.value # h.value
    /\ Len(out) >= 3

----------------------------------------------------------------------------
\* idx lies in the argument span of the structure header on top of the
\* parent stack
InArgumentSpan(idx) ==
    /\ parent_stack # <<>>
    /\ Last(parent_stack).node.tag = "Atom"
    /\ Last(parent_stack).focus.value < idx
    /\ idx <= Last(parent_stack).focus.value + Last(parent_stack).node.val

\* a call of direct_subterm_of_str, its argument and result in answer'
SubtermStep ==
    op' = "direct_subterm_of_str" =>
        /\ answer'[2] = InArgumentSpan(answer'[1])
        /\ parent_stack = <<>> => ~answer'[2]
        /\ (parent_stack # <<>> /\ Last(parent_stack).node.tag \in {"Lis", "PStr", "PStrOffset"})
              => ~answer'[2]
        /\ UNCHANGED <<heap, machine_stack, stack, h, focus, base_iter_valid, parent_stack>>

\* C19: direct_subterm_of_str(idx) returns true exactly when the parent
\* stack is non-empty, the cell of its top frame is a structure header
\* Atom(_, arity) and parent_focus < idx <= parent_focus + arity; it returns
\* false when the parent stack is empty or the top frame is a Lis, PStr or
\* PStrOffset parent, and it changes no state.
C19_DirectSubterm == [][SubtermStep]_vars

\* the last argument of an open structure of two or more arguments was
\* asked for and found
C19_Witness ==
    /\ op = "direct_subterm_of_str" /\ answer # <<>> /\ answer[2]
    /\ Last(parent_stack).node.val >= 2
    /\ answer[1] = Last(parent_stack).focus.value + Last(parent_stack).node.val

----------------------------------------------------------------------------
\* the base iterator after n calls of its pop_stack
RECURSIVE PopCalls(_, _)
PopCalls(it, n) == IF n = 0 THEN it ELSE pop_stack(PopCalls(it, n - 1)).it

\* a call of pop_stack on the post-order iterator
PopStackStep ==
    (op' = "pop_stack" /\ pc' = "live") =>
        /\ UNCHANGED <<focus, base_iter_valid, out, ret>>
        /\ IF parent_stack = <<>>
           THEN UNCHANGED <<heap, machine_stack, stack, h, parent_stack>>
           ELSE /\ parent_stack' = Front(parent_stack)
                /\ \E it \in {PopCalls(TheIter, Last(parent_stack).child_count)} :
                      /\ heap' = it.heap
                      /\ machine_stack' = it.machine_stack
                      /\ stack' = it.stack
                      /\ h' = it.h

\* no cell of the term is referred to from two places
Unshared ==
    \A x, y \in Closure({RootNode}) : x # y => Succ(x) \cap Succ(y) = {}

\* no cell was yielded from the place of a removed frame after the removal
NotYieldedAgain ==
    \A i \in 1 .. Len(discarded) :
        \A j \in discarded[i][2] + 1 .. Len(out) : out_foci[j] # discarded[i][1]

\* C20 (post-order pop_stack): with a non-empty parent stack it performs
\* exactly remaining_children pop_stack calls on the pre-order base, that
\* being the count of the top frame, and then removes that frame, which is
\* never yielded afterwards (a term without shared cells has one frame for
\* each compound cell, so the cell of the removed frame is not yielded from
\* its place again); with an empty parent stack it changes nothing.
C20_PostPopStack ==
    /\ [][PopStackStep]_vars
    /\ []((kind = "post" /\ Unshared) => NotYieldedAgain)

\* pop_stack removed a frame below which another parent waits, its last
\* base pop taking a pending argument off the work list
C20_Witness ==
    /\ kind = "post" /\ pc = "live" /\ op = "pop_stack"
    /\ Unshared
    /\ discarded # <<>>
    /\ parent_stack # <<>>
    /\ is_pending_mark(h)

----------------------------------------------------------------------------
\* the cells the traversal goes to from the cell at x: those of Succ, but
\* for the segment a PStrOffset refers to
VisitSucc(x) ==
    IF CellOf(x).tag = "PStrOffset" THEN {Node("Heap", x[2] + 1)} ELSE Succ(x)

\* the cells inside the heap and the machine stack the traversal leads to
RECURSIVE Reached(_)
Reached(S) ==
    IF S \cup {y \in UNION {VisitSucc(x) : x \in S} : NodeOk(y)} = S THEN S
    ELSE Reached(S \cup {y \in UNION {VisitSucc(x) : x \in S} : NodeOk(y)})

\* a reference-kind cell whose index lies outside the heap, or outside the
\* machine stack for a StackVar
IsDangling(c) ==
    \/ c.tag \in RefTags /\ ~NodeOk(Node("Heap", c.val))
    \/ c.tag = "StackVar" /\ ~NodeOk(Node("Stack", c.val))

DanglingReached == \E x \in Reached({RootNode}) : IsDangling(CellOf(x))

\* the traversal of a term with a dangling reference never yields that
\* reference and never comes to a normal end
BoundsFatal ==
    (kind = "pre" /\ DanglingReached) =>
        /\ ~(pc = "live" /\ ret = None)
        /\ \A i \in 1 .. Len(out) : ~IsDangling(out[i])
        /\ (op = "next" /\ IsDangling(root)) => pc = "panic"

\* C21 (bounds violation is fatal): when the traversal reaches a
\* reference-kind cell whose index lies outside the heap (or outside the
\* machine stack for a StackVar), the iterator does not yield that cell as a
\* leaf and does not end normally; the access ends in a checked bounds
\* violation.
C21_BoundsFatal == []BoundsFatal

\* the traversal went through a list cell to a dangling reference and ended
\* in the bounds violation
C21_Witness ==
    /\ kind = "pre" /\ pc = "panic" /\ op = "next"
    /\ DanglingReached /\ ~IsDangling(root)
    /\ root.tag = "Lis" /\ out = <<>>

----------------------------------------------------------------------------
\* the cell of the original heap at index i
Heap0At(i) == heap0[i + 1]

\* the tail at loc + 1 of the segment at loc links to a later segment
LinksOn(loc) ==
    /\ Heap0At(loc + 1).tag \in {"PStrLoc", "Var"}
    /\ Heap0At(loc + 1).val > loc + 1

\* a chain of segments starts at loc: a PStr, and in the cell after it a
\* link to a later chain, a variable referring to itself or a constant
RECURSIVE IsChain(_)
IsChain(loc) ==
    /\ loc + 1 < Len(heap0)
    /\ Heap0At(loc).tag = "PStr"
    /\ IF LinksOn(loc) THEN IsChain(Heap0At(loc + 1).val)
       ELSE \/ Heap0At(loc + 1) = heap_loc_as_cell(loc + 1)
            \/ Heap0At(loc + 1).tag \in {"Fixnum"}
            \/ Heap0At(loc + 1).tag = "Atom" /\ Heap0At(loc + 1).val = 0

\* the segments of the chain at loc in chain order, then its final tail
RECURSIVE ChainStream(_)
ChainStream(loc) ==
    IF LinksOn(loc) THEN <<Heap0At(loc)>> \o ChainStream(Heap0At(loc + 1).val)
    ELSE <<Heap0At(loc), Heap0At(loc + 1)>>

\* the root refers to a chain of segments
ChainRoot == root.tag \in {"PStrLoc", "Var"} /\ IsChain(root.val)

\* the cells of a stream without mark and forwarding bits
Bare(s) == [i \in 1 .. Len(s) |-> unmark_cell_bits(s[i])]

\* a PStr at loc is yielded with the tail at loc + 1 next on the work list,
\* and a chain is yielded segment by segment up to its final tail
PStrThenTail ==
    /\ (kind = "pre" /\ pc = "live" /\ ret.tag = "PStr") =>
          /\ ~get_forwarding_bit(ret)
          /\ stack # <<>>
          /\ Last(stack) = iterable_loc(h.value + 1, "Heap")
    /\ (kind = "pre" /\ ChainRoot) =>
          /\ pc \in {"idle", "live"}
          /\ IsPrefix(Bare(out), ChainStream(root.val))
          /\ (pc = "live" /\ ret = None) => Bare(out) = ChainStream(root.val)

\* C22 (partial strings): a PStr cell at index loc is yielded and the next
\* cells yielded are those of its tail at loc + 1; a chain of segments linked
\* through their tails is yielded segment by segment in chain order, ending
\* with the final tail, a variable tail referring to itself included.
C22_PartialStrings == []PStrThenTail

\* a chain of two segments linked by a PStrLoc and ending in a variable that
\* refers to itself was traversed to its end
C22_Witness ==
    /\ kind = "pre" /\ pc = "live" /\ ret = None
    /\ heap0 = PStrChain(2, "PStrLoc", heap_loc_as_cell(3))
    /\ Bare(out) = <<pstr_as_cell("abc "), pstr_as_cell("def"), heap_loc_as_cell(3)>>

----------------------------------------------------------------------------
\* the cell at index i of the heap the iterator was built on, root included
TermAt(i) == Append(heap0, root)[i + 1]

IsLeaf(c) == c.tag = "Fixnum" \/ (c.tag = "Atom" /\ c.val = 0)

\* the i-th cell of the stream is a PStrOffset read by a visit
OffsetAt(i) == out[i].tag = "PStrOffset" /\ ~get_forwarding_bit(out[i])

\* a visited PStrOffset(off) at loc is yielded with heap[off] marked and
\* loc + 1 next on the work list; a leaf at loc + 1 is the next cell of the
\* stream; a segment reached through PStrOffset cells only is not yielded;
\* at the end of the stream heap[off] is unmarked
OffsetThenNext ==
    /\ (kind = "pre" /\ pc = "live" /\ ret.tag = "PStrOffset" /\ ~get_forwarding_bit(ret)) =>
          /\ stack # <<>>
          /\ Last(stack) = iterable_loc(h.value + 1, "Heap")
          /\ get_mark_bit(heap[ret.val + 1])
          /\ unmark_cell_bits(ret) = TermAt(h.value)
    /\ kind = "pre" =>
          \A i \in 1 .. Len(out) - 1 :
              (OffsetAt(i) /\ IsLeaf(TermAt(out_foci[i].value + 1))) =>
                  /\ out[i + 1] = TermAt(out_foci[i].value + 1)
                  /\ out_foci[i + 1] = iterable_loc(out_foci[i].value + 1, "Heap")
    /\ (kind = "pre" /\ \A x \in Reached({RootNode}) : CellOf(x).tag # "PStr") =>
          \A i \in 1 .. Len(out) : out[i].tag # "PStr"
    /\ (kind = "pre" /\ ret = None /\ pc \in {"live", "idle"}) =>
          \A i \in 1 .. Len(out) : OffsetAt(i) => ~get_mark_bit(heap[out[i].val + 1])

\* C23 (PStrOffset): when a PStrOffset(off) cell at index loc is visited it
\* is yielded, the next cell yielded is the offset cell at loc + 1, and the
\* partial-string segment at off is not yielded through this reference; the
\* mark placed on heap[off] is cleared again before the iterator ends.
C23_PStrOffset == []OffsetThenNext

\* the pair PStrOffset(0), 1 behind the segment "abc " was traversed to its
\* end from a root referring to the pair
C23_Witness ==
    /\ kind = "pre" /\ pc = "live" /\ ret = None
    /\ root = pstr_loc_as_cell(2)
    /\ heap0 = <<pstr_as_cell("abc "), empty_list_as_cell,
                 pstr_offset_as_cell(0), fixnum_as_cell(1)>>
    /\ Unmarked(out) = <<pstr_offset_as_cell(0), fixnum_as_cell(1)>>
    /\ ~get_mark_bit(heap[1])

----------------------------------------------------------------------------
\* the kinds of cell the iterator follows to their target
DerefTags == {"Str", "PStrLoc", "Var", "AttrVar", "StackVar"}

\* every reference cell of the stream is a forwarded one, and a root that is
\* a reference is not the first cell of the stream unless it is forwarded
OnlyForwardedRefs ==
    kind = "pre" =>
        /\ \A i \in 1 .. Len(out) :
              out[i].tag \in DerefTags => get_forwarding_bit(out[i])
        /\ (ret.tag \in DerefTags /\ pc = "live") => get_forwarding_bit(ret)
        /\ (out # <<>> /\ root.tag \in DerefTags /\ ~get_forwarding_bit(out[1])) =>
              out_foci[1] # RootLoc

\* C24 (references are dereferenced): a Str, PStrLoc, Var, AttrVar or
\* StackVar cell visited without its forwarding bit set is never yielded
\* itself - only what its target produces is yielded - so every such cell in
\* the pre-order stream carries forwarding = true.
C24_Dereferenced == []OnlyForwardedRefs

\* the stream of X = f(a, b, a, X) from a Str root: the root was followed to
\* the header and the Str argument was yielded forwarded
C24_Witness ==
    /\ kind = "pre" /\ pc = "live" /\ ret = None
    /\ root = str_loc_as_cell(0)
    /\ heap0 = functor("f", <<a_atom, b_atom, a_atom, str_loc_as_cell(0)>>)
    /\ out[1].tag = "Atom"
    /\ out[5].tag = "Str" /\ get_forwarding_bit(out[5])

----------------------------------------------------------------------------
\* the cell stored at the focus
FocusCell == read_cell(TheIter, h)

\* the entry on top of the work list of it is popped as a cell with its
\* forwarding bit set
SentinelOnTop(it) ==
    /\ it.stack # <<>>
    /\ ~is_pending_mark(Last(it.stack))
    /\ InRange(it, Last(it.stack))
    /\ get_forwarding_bit(read_cell(it, Last(it.stack)))

\* it once the entry on top was popped and the forwarding bit of its stored
\* cell cleared, nothing else touched
SentinelPopped(it) ==
    write_cell([it EXCEPT !.stack = Front(@), !.h = Last(it.stack)], Last(it.stack),
               set_forwarding_bit(read_cell(it, Last(it.stack)), FALSE))

\* every pop of a forwarded cell in the call of next made on it ends the
\* call with the cell as it was stored and with nothing changed but the
\* entry popped and the stored forwarding bit
RECURSIVE SentinelsEmitted(_, _)
SentinelsEmitted(it, fuel) ==
    \/ it.stack = <<>>
    \/ fuel = 0
    \/ /\ SentinelOnTop(it) =>
              /\ follow_step(it).k = "yield"
              /\ follow_step(it).ret = read_cell(it, Last(it.stack))
              /\ follow_step(it).it = SentinelPopped(it)
       /\ (follow_step(it).k = "continue" /\ ~follow_step(it).it.panic) =>
              SentinelsEmitted(follow_step(it).it, fuel - 1)

\* a call of next whose first pop is a forwarded cell yields it as it was
\* stored, clears its stored forwarding bit and changes nothing else: no
\* entry pushed, no mark set; so does every later pop of the call
SentinelStep ==
    (kind = "pre" /\ pc = "live" /\ op' = "next") =>
        /\ SentinelsEmitted(TheIter, PopFuel)
        /\ SentinelOnTop(TheIter) =>
              /\ ret' = read_cell(TheIter, Last(stack))
              /\ get_forwarding_bit(ret')
              /\ ~get_forwarding_bit(FocusCell')
              /\ out' = Append(out, ret')
              /\ \E it \in {SentinelPopped(TheIter)} :
                    /\ heap' = it.heap
                    /\ machine_stack' = it.machine_stack
                    /\ stack' = it.stack
                    /\ h' = it.h

\* C25 (sentinel emission): when the popped location holds a cell with
\* forwarding = true, the iterator yields a copy of the cell that still has
\* forwarding = true, clears the forwarding bit of the stored cell before
\* next returns, and does not expand the cell: it pushes no work-list entry
\* and sets no mark.
C25_SentinelEmission == [][SentinelStep]_vars

\* the argument of X = f(X, ..) was popped forwarded right after the header
\* and yielded with its bit, the stored bit cleared
C25_Witness ==
    /\ kind = "pre" /\ pc = "live" /\ op = "next"
    /\ Len(out) = 2
    /\ out[1].tag = "Atom"
    /\ ret = set_forwarding_bit(set_mark_bit(str_loc_as_cell(0), TRUE), TRUE)
    /\ FocusCell = set_mark_bit(str_loc_as_cell(0), TRUE)
    /\ h = mark_loc(1, "Heap")

----------------------------------------------------------------------------
\* the entry on top of the work list of it is popped as a StackVar that is
\* expanded: not forwarded, and not a marked cell popped as Iterable
StackVarOnTop(it) ==
    /\ it.stack # <<>>
    /\ ~is_pending_mark(Last(it.stack))
    /\ InRange(it, Last(it.stack))
    /\ read_cell(it, Last(it.stack)).tag = "StackVar"
    /\ ~get_forwarding_bit(read_cell(it, Last(it.stack)))
    /\ (get_mark_bit(read_cell(it, Last(it.stack))) => is_marked(Last(it.stack)))
    /\ read_cell(it, Last(it.stack)).val < Len(it.machine_stack)

\* the referent of the machine-stack cell c is marked in it
ReferentMarked(it, c) ==
    \/ c.tag = "StackVar" /\ c.val < Len(it.machine_stack)
          /\ get_mark_bit(it.machine_stack[c.val + 1])
    \/ c.tag \in RefTags /\ c.val < Len(it.heap) /\ get_mark_bit(it.heap[c.val + 1])

\* the expansion of the StackVar(vs) on top of the work list of it gave jt:
\* machine_stack[vs] is marked and entered on the work list, as Iterable if
\* it was unmarked and as Marked, the heap is as it was but for a forwarding
\* bit, and nothing is yielded
StackVarFollowed(it, jt, vs) ==
    /\ get_mark_bit(jt.machine_stack[vs + 1])
    /\ jt.stack = Front(it.stack)
                  \o (IF get_mark_bit(it.machine_stack[vs + 1]) THEN <<>>
                      ELSE <<iterable_loc(vs, "Stack")>>)
                  \o <<mark_loc(vs, "Stack")>>
    /\ \A i \in 1 .. Len(it.heap) : jt.heap[i].m = it.heap[i].m
    /\ get_forwarding_bit(jt.machine_stack[vs + 1]) =
          (\/ get_forwarding_bit(it.machine_stack[vs + 1])
           \/ ReferentMarked(jt, jt.machine_stack[vs + 1]))

\* every expansion of a StackVar in the call of next made on it marks and
\* enters its machine-stack target
RECURSIVE StackVarsFollowed(_, _)
StackVarsFollowed(it, fuel) ==
    \/ it.stack = <<>>
    \/ fuel = 0
    \/ /\ StackVarOnTop(it) =>
              /\ follow_step(it).k = "continue"
              /\ ~follow_step(it).it.panic =>
                    StackVarFollowed(it, follow_step(it).it,
                                     read_cell(it, Last(it.stack)).val)
       /\ (follow_step(it).k = "continue" /\ ~follow_step(it).it.panic) =>
              StackVarsFollowed(follow_step(it).it, fuel - 1)

MachineStackClean ==
    \A i \in 1 .. Len(machine_stack) :
        ~get_mark_bit(machine_stack[i]) /\ ~get_forwarding_bit(machine_stack[i])

\* a StackVar is followed on the machine stack; one read there or on the heap
\* is yielded forwarded only; marks on the machine stack belong to entries of
\* the work list; the machine stack is clean at the end of the stream and
\* after drop
StackVarsOnStack ==
    kind = "pre" =>
        /\ pc = "live" => StackVarsFollowed(TheIter, PopFuel)
        /\ \A i \in 1 .. Len(out) :
              out[i].tag = "StackVar" => get_forwarding_bit(out[i])
        /\ pc = "live" =>
              \A i \in 1 .. Len(machine_stack) :
                  get_mark_bit(machine_stack[i]) =>
                      \E j \in 1 .. Len(stack) :
                          stack[j].heap_or_stack = "Stack" /\ stack[j].value = i - 1
        /\ ((pc = "live" /\ ret = None) \/ pc = "idle") => MachineStackClean

\* C26 (stack variables): a StackVar(vs) cell is followed like a heap
\* variable but on the machine stack - the mark is set on machine_stack[vs],
\* the forwarding check reads machine_stack marks, a StackVar whose stack
\* target is already marked is yielded with forwarding = true, and every mark
\* or forwarding bit set on a machine-stack cell is cleared by the end of the
\* traversal or by drop.
C26_StackVars == []StackVarsOnStack

\* the StackVar at heap[0] refers to a machine-stack variable that refers
\* back to heap[0]: it was yielded forwarded and the traversal ended with a
\* clean machine stack
C26_Witness ==
    /\ kind = "pre" /\ pc = "live" /\ ret = None
    /\ heap0 = <<stack_loc_as_cell(0)>>
    /\ machine_stack = <<heap_loc_as_cell(0)>>
    /\ out = <<set_forwarding_bit(set_mark_bit(stack_loc_as_cell(0), TRUE), TRUE)>>
    /\ out_foci[1].heap_or_stack = "Heap"

----------------------------------------------------------------------------
\* the heap [Lis(1), Lis(1), Lis(1)] of the cyclic list L = [L|L]
SelfList == <<list_loc_as_cell(1), list_loc_as_cell(1), list_loc_as_cell(1)>>

OnSelfList == kind = "pre" /\ heap0 = SelfList /\ root = heap_loc_as_cell(0)

\* the stream on L = [L|L] is made of four cells
C27_FourCells ==
    (OnSelfList /\ pc = "live" /\ ret = None) =>
        Bare(out) = SelfList \o <<list_loc_as_cell(1)>>

\* the stream on L = [L|L] is made of the three cells of the heap, read at
\* 0, 1 and 2
SelfListStream ==
    OnSelfList =>
        /\ pc \in {"idle", "live"}
        /\ IsPrefix(Bare(out), SelfList)
        /\ \A i \in 1 .. Len(out) : out_foci[i].value = i - 1
        /\ (pc = "live" /\ ret = None) => Bare(out) = SelfList

\* C27 (cyclic list L = [L|L]), as the code has it: for the heap
\* [Lis(1), Lis(1), Lis(1)] with root heap_loc(0) the pre-order stream is
\* Lis(1), Lis(1), Lis(1) - three cells, read at heap[0], heap[1] and
\* heap[2] - then end; no fourth cell is yielded.
C27_SelfListStream == []SelfListStream

\* the stream on L = [L|L] came to its end
C27_Witness ==
    /\ OnSelfList /\ pc = "live" /\ ret = None /\ extra = 0
    /\ Len(out) = 3

\* on L = [L|L] every cell yielded is Lis(1) once its bits are cleared, the
\* third carries the forwarding and the mark bit, further calls yield
\* nothing, and after drop no cell is marked
SelfListBits ==
    OnSelfList =>
        /\ Len(out) <= 3
        /\ \A i \in 1 .. Len(out) :
              /\ unmark_cell_bits(out[i]) = list_loc_as_cell(1)
              /\ i = 3 => (get_forwarding_bit(out[i]) /\ get_mark_bit(out[i]))
        /\ (pc = "live" /\ ret = None) => Len(out) = 3
        /\ pc = "idle" => AllUnmarked /\ heap = heap0

\* C28 (test of the cyclic list): for heap [Lis(1), Lis(1), Lis(1)] with
\* root heap_loc(0) the stackful pre-order iterator yields exactly three
\* cells, each Lis(1) ignoring bits, the third with both forwarding and mark
\* set, then ends, and all cells are unmarked after drop.
C28_SelfListTest == []SelfListBits

\* the iterator on L = [L|L] was consumed, asked again, and dropped
C28_Witness ==
    /\ OnSelfList /\ pc = "idle" /\ op = "drop"
    /\ Len(out) = 3 /\ ret = None /\ extra >= 1
    /\ out[3] = set_forwarding_bit(set_mark_bit(list_loc_as_cell(1), TRUE), TRUE)

----------------------------------------------------------------------------
\* the entry on top of the work list of it has the given tag and the cell at
\* its location is within range
TopTagged(it, tag) ==
    /\ it.stack # <<>>
    /\ Last(it.stack).tag = tag
    /\ InRange(it, Last(it.stack))

\* the cell at the location on top of the work list of it
TopCell(it) == read_cell(it, Last(it.stack))

\* it once the entry on top was popped and taken as the focus
Popped(it) == [it EXCEPT !.stack = Front(@), !.h = Last(it.stack)]

\* the pop made on it took a marked cell off an Iterable entry: the mark is
\* cleared, nothing is yielded, nothing is pushed
MarkCleared(it) ==
    /\ follow_step(it).k = "continue"
    /\ follow_step(it).ret = None
    /\ follow_step(it).it = write_cell(Popped(it), Last(it.stack),
                                       set_mark_bit(TopCell(it), FALSE))

\* every pop of an Iterable entry whose cell is marked and not forwarded, in
\* the call of next made on it, clears the mark and goes on; every pop of a
\* Marked entry leaves the mark of its cell as it is
RECURSIVE PopsByTag(_, _)
PopsByTag(it, fuel) ==
    \/ it.stack = <<>>
    \/ fuel = 0
    \/ /\ (TopTagged(it, "Iterable") /\ get_mark_bit(TopCell(it))
             /\ ~get_forwarding_bit(TopCell(it))) => MarkCleared(it)
       /\ (TopTagged(it, "Marked") /\ ~follow_step(it).it.panic) =>
             get_mark_bit(read_cell(follow_step(it).it, Last(it.stack)))
                = get_mark_bit(TopCell(it))
       /\ (follow_step(it).k = "continue" /\ ~follow_step(it).it.panic) =>
             PopsByTag(follow_step(it).it, fuel - 1)

\* a call of next that starts by popping a Marked entry whose cell is a
\* constant ends at once: the cell is yielded with its mark, nothing else
\* changes
MarkedEntryStep ==
    (kind = "pre" /\ pc = "live" /\ op' = "next") =>
        /\ PopsByTag(TheIter, PopFuel)
        /\ (TopTagged(TheIter, "Marked") /\ IsLeaf(TopCell(TheIter))
              /\ ~get_forwarding_bit(TopCell(TheIter))) =>
              /\ ret' = TopCell(TheIter)
              /\ h' = Last(stack)
              /\ stack' = Front(stack)
              /\ heap' = heap
              /\ machine_stack' = machine_stack

\* C29 (advance rule 1), as the code has it: when next pops a work-list
\* entry tagged Iterable for location loc whose cell has its mark bit set and
\* its forwarding bit clear, it clears the mark bit of the cell at loc,
\* yields nothing for that entry, pushes nothing, and continues with the
\* next entry; an entry tagged Marked is the one whose cell is read - emitted
\* as a sentinel, expanded or yielded - and its mark bit is left as it is.
C29_CleanupOnIterable == [][MarkedEntryStep]_vars

\* when next pops a Marked entry it clears the mark of the cell there,
\* yields nothing and pushes nothing
C29_CleanupOnMarked ==
    (kind = "pre" /\ pc = "live" /\ TopTagged(TheIter, "Marked")) =>
        MarkCleared(TheIter)

\* f(a, b) was traversed to its end: its argument a was yielded marked off
\* a Marked entry, and the Iterable entries left the heap without a mark
C29_Witness ==
    /\ kind = "pre" /\ pc = "live" /\ ret = None
    /\ heap0 = functor("f", <<a_atom, b_atom>>) /\ root = str_loc_as_cell(0)
    /\ out_foci[2] = mark_loc(1, "Heap")
    /\ out[2] = set_mark_bit(a_atom, TRUE)
    /\ \A i \in 1 .. Len(heap) : ~get_mark_bit(heap[i])

----------------------------------------------------------------------------
\* the locations of the cells of it
Locs(it) ==
    {iterable_loc(i, "Heap") : i \in 0 .. (Len(it.heap) - 1)}
    \cup {iterable_loc(i, "Stack") : i \in 0 .. (Len(it.machine_stack) - 1)}

\* the places of the work list of it, its top left out, that hold an entry
\* of the given tag for the location l
Below(it, tag, l) ==
    {j \in 1 .. (Len(it.stack) - 1) :
        /\ it.stack[j].tag = tag
        /\ it.stack[j].value = l.value
        /\ it.stack[j].heap_or_stack = l.heap_or_stack}

\* the top of the work list of it is an entry of the given tag for l
OnTop(it, tag, l) ==
    /\ it.stack # <<>>
    /\ Last(it.stack).tag = tag
    /\ Last(it.stack).value = l.value
    /\ Last(it.stack).heap_or_stack = l.heap_or_stack

\* in it a marked cell has an Iterable entry on the work list
MarkedHasEntry(it) ==
    \A l \in Locs(it) :
        get_mark_bit(read_cell(it, l)) =>
            (Below(it, "Iterable", l) # {} \/ OnTop(it, "Iterable", l))

\* in it the cell of an Iterable entry below the top is marked: the top
\* alone may be an Iterable entry of a cell that is still to be visited
EntryHasMark(it) ==
    \A l \in Locs(it) :
        Below(it, "Iterable", l) # {} => get_mark_bit(read_cell(it, l))

\* MarkedHasEntry, and EntryHasMark when asked for, before every pop of the
\* call of next made on it
RECURSIVE SingleEntryAlong(_, _, _)
SingleEntryAlong(it, both, fuel) ==
    /\ MarkedHasEntry(it)
    /\ both => EntryHasMark(it)
    /\ \/ it.stack = <<>>
       \/ fuel = 0
       \/ (follow_step(it).k = "continue" /\ ~follow_step(it).it.panic) =>
              SingleEntryAlong(follow_step(it).it, both, fuel - 1)

\* on a heap laid out as terms both directions hold; on any heap a marked
\* cell has its Iterable entry
SingleEntry ==
    (kind = "pre" /\ pc = "live") => SingleEntryAlong(TheIter, WF0, PopFuel)

\* C30 (single entry), as the code has it: in every state during the
\* traversal of a heap laid out as terms the mark bit of a cell is true if
\* and only if an Iterable entry for the cell is on the work list - the
\* entry push_if_unmarked pushed when it set the mark, which clears the mark
\* when it is popped - where the entry on top of the work list may also be
\* the Iterable entry of a cell that was never marked and is still to be
\* visited; the Marked entry of the cell is popped first and the mark
\* outlives it.  On any heap a marked cell has an Iterable entry.
C30_SingleEntry == []SingleEntry

\* the mark bit of a cell is true exactly while its Marked entry is on the
\* work list
C30_MarkedEntryPending ==
    (kind = "pre" /\ pc = "live") =>
        \A l \in Locs(TheIter) :
            get_mark_bit(read_cell(TheIter, l)) <=>
                (Below(TheIter, "Marked", l) # {} \/ OnTop(TheIter, "Marked", l))

\* the header of f(a, b) was yielded off its Marked entry: it is marked, its
\* Iterable entry waits at the bottom of the work list, its Marked entry is
\* gone
C30_Witness ==
    /\ kind = "pre" /\ pc = "live"
    /\ heap0 = functor("f", <<a_atom, b_atom>>) /\ root = str_loc_as_cell(0)
    /\ Len(out) = 1
    /\ get_mark_bit(heap[1])
    /\ stack[1] = iterable_loc(0, "Heap")
    /\ \A j \in 1 .. Len(stack) : stack[j] # mark_loc(0, "Heap")

----------------------------------------------------------------------------
\* the entries the pop made on it pushes, in the order they are pushed
Pushed(it) ==
    SubSeq(follow_step(it).it.stack, Len(it.stack), Len(follow_step(it).it.stack))

\* the entries pushed over a traversal, from the pops made on it to the
\* empty work list, after the entries of log
RECURSIVE PushLog(_, _, _)
PushLog(it, log, fuel) ==
    IF it.stack = <<>> \/ fuel = 0 THEN log
    ELSE IF follow_step(it).it.panic THEN log
    ELSE PushLog(follow_step(it).it, log \o Pushed(it), fuel - 1)

\* the iterator as new leaves it
NewIter == Iter(Append(heap0, root), MachineStack0, <<RootLoc>>, RootLoc)

\* the entries pushed from new on, the seed first, to the end of the stream
\* or as far as PopFuel + MaxYield pops
TraversalLog == PushLog(NewIter, <<RootLoc>>, PopFuel + MaxYield)

\* the places of log that hold an entry of the given tag for the location l
PushesOf(log, tag, l) ==
    {j \in 1 .. Len(log) :
        /\ log[j].tag = tag
        /\ log[j].value = l.value
        /\ log[j].heap_or_stack = l.heap_or_stack}

\* the pop made on it reads a partial string or a PStrOffset, whose branches
\* push Iterable entries only
PopsPartialString(it) ==
    /\ ~is_pending_mark(Last(it.stack))
    /\ InRange(it, Last(it.stack))
    /\ TopCell(it).tag \in {"PStr", "PStrOffset"}

\* in the entries es pushed by one pop, every Iterable entry is followed by
\* exactly one Marked entry for its location
IterablePaired(es) ==
    \A i \in 1 .. Len(es) :
        es[i].tag = "Iterable" =>
            Cardinality({j \in PushesOf(es, "Marked", es[i]) : j > i}) = 1

\* in the entries es pushed by one pop, every Marked entry follows an
\* Iterable entry for its location
MarkedPaired(es) ==
    \A j \in 1 .. Len(es) :
        es[j].tag = "Marked" =>
            \E i \in PushesOf(es, "Iterable", es[j]) : i < j

RECURSIVE PairsAlong(_, _)
PairsAlong(it, fuel) ==
    \/ it.stack = <<>>
    \/ fuel = 0
    \/ follow_step(it).it.panic
    \/ /\ ~PopsPartialString(it) => IterablePaired(Pushed(it))
       /\ PopsPartialString(it) => PushesOf(Pushed(it), "Marked", Last(it.stack)) = {}
       /\ follow_step(it).k = "continue" => PairsAlong(follow_step(it).it, fuel - 1)

\* as new leaves the iterator: every Marked entry of the log of the traversal
\* to come follows an Iterable entry for the same location
MarkedAfterIterable ==
    op = "new" => MarkedPaired(PushLog(TheIter, stack, PopFuel + MaxYield))

PushPairing ==
    kind = "pre" =>
        /\ MarkedAfterIterable
        /\ pc = "live" => PairsAlong(TheIter, PopFuel)

\* C31: Work-list well-formedness. An Iterable entry pushed by a pop other
\* than the pop of a partial string or of a PStrOffset is followed, among the
\* entries of that same pop, by exactly one Marked entry for the same
\* location; the pop of a partial string or of a PStrOffset pushes no Marked
\* entry for the popped location; and over the whole traversal every Marked
\* entry that is pushed follows an Iterable entry pushed for the same
\* location.
C31_PushPairing == []PushPairing

\* a finished traversal that pushed Marked entries and visited a partial
\* string, whose Iterable entries have no Marked partner
C31_Witness ==
    /\ kind = "pre"
    /\ runs = 1
    /\ pc = "live"
    /\ op = "next"
    /\ ret = None
    /\ PushesOf(TraversalLog, "Marked", RootLoc) # {}
    /\ \E i \in 1 .. Len(out) : out[i].tag = "PStr"

\* C31 as stated: over the traversal every Iterable push has exactly one
\* later Marked push for its location, and every Marked push an earlier
\* Iterable push
C31_EveryIterablePaired ==
    (kind = "pre" /\ runs = 1 /\ pc = "live" /\ op = "next" /\ ret = None) =>
        IterablePaired(TraversalLog) /\ MarkedPaired(TraversalLog)

----------------------------------------------------------------------------
\* the entry on top of the work list of it is an Iterable entry whose cell
\* is marked and not forwarded
CleanupOnTop(it) ==
    /\ TopTagged(it, "Iterable")
    /\ get_mark_bit(TopCell(it))
    /\ ~get_forwarding_bit(TopCell(it))

\* it with the entry on top popped and the mark of its cell cleared
CleanedUp(it) ==
    write_cell(Popped(it), Last(it.stack), set_mark_bit(TopCell(it), FALSE))

\* the pops of cleanup entries in the call of next made on it: each goes on
\* to the next pop, one entry shorter, with nothing changed but the mark
RECURSIVE CleanupsAlong(_, _)
CleanupsAlong(it, fuel) ==
    \/ it.stack = <<>>
    \/ fuel = 0
    \/ /\ CleanupOnTop(it) =>
             /\ follow_step(it).k = "continue"
             /\ follow_step(it).it.stack = Front(it.stack)
             /\ follow_step(it).it.heap = CleanedUp(it).heap
             /\ follow_step(it).it.machine_stack = CleanedUp(it).machine_stack
             /\ ~get_mark_bit(read_cell(follow_step(it).it, Last(it.stack)))
       /\ (follow_step(it).k = "continue" /\ ~follow_step(it).it.panic) =>
             CleanupsAlong(follow_step(it).it, fuel - 1)

\* a call of next that starts on a cleanup entry ends as the call made once
\* the entry is popped and the mark cleared: the entry yields nothing of its
\* own and leaves nothing behind
CleanupStep ==
    (kind = "pre" /\ pc = "live" /\ op' = "next") =>
        /\ CleanupsAlong(TheIter, PopFuel)
        /\ CleanupOnTop(TheIter) =>
              /\ ret' = pre_next(CleanedUp(TheIter)).ret
              /\ heap' = pre_next(CleanedUp(TheIter)).it.heap
              /\ machine_stack' = pre_next(CleanedUp(TheIter)).it.machine_stack
              /\ stack' = pre_next(CleanedUp(TheIter)).it.stack

\* C32: when next pops an Iterable entry whose cell has mark = true and
\* forwarding = false, it clears the mark, yields nothing for that entry,
\* pushes nothing, and continues with the next pop; the cell is not expanded
\* by that pop.
C32_CleanupPop == [][CleanupStep]_vars

\* the last call of the traversal of a list popped nothing but cleanup
\* entries and returned nothing, leaving every mark cleared
C32_Witness ==
    /\ kind = "pre" /\ pc = "live" /\ op = "next" /\ ret = None
    /\ root.tag = "Lis"
    /\ Len(out) >= 3
    /\ stack = <<>>
    /\ \A i \in 1 .. Len(heap) : ~get_mark_bit(heap[i])

----------------------------------------------------------------------------
\* stack_last finds nothing exactly when pop_stack returns nothing, and the
\* location it finds is the one pop_stack stops at
PeekAgrees(it) ==
    /\ (stack_last(it).loc = <<>>) <=> (pop_stack(it).end # "some")
    /\ stack_last(it).loc # <<>> => stack_last(it).loc[1] = pop_stack(it).it.h

\* C33: stack_last is a pure peek that agrees with pop_stack: in every
\* reachable state of a live pre-order iterator it returns the location that
\* an immediately following pop_stack would return the cell of, and it
\* returns nothing exactly when pop_stack would return nothing.
C33_PeekAgreesWithPop == (pc = "live" /\ kind = "pre") => PeekAgrees(TheIter)

----------------------------------------------------------------------------
\* no cell of the heap or of the machine stack gains a bit in the step
NoBitSet ==
    /\ Len(heap') = Len(heap)
    /\ \A i \in 1 .. Len(heap) :
          /\ get_mark_bit(heap'[i]) => get_mark_bit(heap[i])
          /\ get_forwarding_bit(heap'[i]) => get_forwarding_bit(heap[i])
    /\ \A i \in 1 .. Len(machine_stack) :
          /\ get_mark_bit(machine_stack'[i]) => get_mark_bit(machine_stack[i])
          /\ get_forwarding_bit(machine_stack'[i]) => get_forwarding_bit(machine_stack[i])

\* pop_stack pushes nothing and, on a work list that is not empty, takes at
\* least one entry off
PrePopStackStep ==
    (kind = "pre" /\ op' = "pop_stack") =>
        /\ NoBitSet
        /\ IsPrefix(stack', stack)
        /\ stack # <<>> => Len(stack') < Len(stack)
        /\ stack = <<>> => (answer' = <<>> /\ stack' = <<>>)

\* the iterator was dropped after pop_stack was called on it
DroppedAfterPops == kind = "pre" /\ pc = "idle" /\ op = "drop"

\* C34: pre-order pop_stack never sets a mark or forwarding bit and never
\* pushes an entry; on a non-empty work list it removes at least one entry;
\* and after any interleaving of next and pop_stack calls followed by drop,
\* every heap and machine-stack cell has mark = false and forwarding = false.
C34_PopStackClean ==
    /\ [][PrePopStackStep]_vars
    /\ [](DroppedAfterPops => AllUnmarked)

\* pop_stack was called between calls of next and returned a cell, leaving
\* entries and marked cells for drop
C34_Witness ==
    /\ kind = "pre" /\ pc = "live" /\ op = "pop_stack"
    /\ answer # <<>>
    /\ Len(out) >= 1
    /\ stack # <<>>
    /\ \E i \in 1 .. Len(heap) : get_mark_bit(heap[i])

----------------------------------------------------------------------------
\* between calls of next and pop_stack, and before every pop of a call of
\* next, a marked cell has an Iterable entry on the work list
MarkedCovered ==
    (kind = "pre" /\ pc = "live") => SingleEntryAlong(TheIter, FALSE, PopFuel)

\* C35: cleanup coverage. In every reachable state of a traversal driven by
\* next and pop_stack, each heap or machine-stack cell whose mark bit is set
\* has at least one Iterable-tagged work-list entry for its location, so
\* drop reaches every marked cell.
C35_CleanupCoverage == []MarkedCovered

\* pop_stack returned a cell while a machine-stack cell and a heap cell are
\* marked, each with its Iterable entry on the work list
C35_Witness ==
    /\ kind = "pre" /\ pc = "live" /\ op = "pop_stack"
    /\ answer # <<>>
    /\ \E i \in 1 .. Len(machine_stack) : get_mark_bit(machine_stack[i])
    /\ \E i \in 1 .. Len(heap) : get_mark_bit(heap[i])
    /\ MarkedHasEntry(TheIter)

----------------------------------------------------------------------------
\* the locations of the cells whose forwarding bit is set
Forwarded == {l \in Locs(TheIter) : get_forwarding_bit(read_cell(TheIter, l))}

\* between calls at most one cell is forwarded, and it is the cell of the
\* entry on top of the work list
OneSentinelOnTop ==
    (kind = "pre" /\ pc = "live") =>
        /\ Cardinality(Forwarded) <= 1
        /\ \A l \in Forwarded :
              /\ stack # <<>>
              /\ Last(stack).value = l.value
              /\ Last(stack).heap_or_stack = l.heap_or_stack

\* a call of next or pop_stack made while a cell is forwarded clears the
\* bit with its first pop and returns
SentinelCleared ==
    (kind = "pre" /\ pc = "live" /\ Forwarded # {} /\ op' \in {"next", "pop_stack"}) =>
        /\ stack' = Front(stack)
        /\ h' = Last(stack)
        /\ ~get_forwarding_bit(read_cell(Iter(heap', machine_stack', stack', h'), Last(stack)))

\* C36: single pending sentinel. After construction and after every next or
\* pop_stack call returns, at most one cell has its forwarding bit set, and
\* if one does, its location is the location of the top work-list entry, so
\* the very next pop clears it.
C36_SinglePendingSentinel == []OneSentinelOnTop /\ [][SentinelCleared]_vars

\* a call of next returned leaving one forwarded cell under the top entry,
\* with other entries below it
C36_Witness ==
    /\ kind = "pre" /\ pc = "live" /\ op = "next"
    /\ Cardinality(Forwarded) = 1
    /\ Len(stack) >= 2
    /\ Last(stack).tag = "Marked"

----------------------------------------------------------------------------
\* the heap indices of it that hold the header of a structure with arguments
Headers(it) ==
    {vh \in 0 .. (Len(it.heap) - 1) :
        it.heap[vh + 1].tag = "Atom" /\ it.heap[vh + 1].val >= 1}

\* the places of the work list of it that hold a PendingMark or Marked entry
\* for an argument of the structure whose header is at vh
ArgEntries(it, vh) ==
    {j \in 1 .. Len(it.stack) :
        /\ it.stack[j].tag \in {"PendingMark", "Marked"}
        /\ it.stack[j].heap_or_stack = "Heap"
        /\ it.stack[j].value > vh
        /\ it.stack[j].value <= vh + it.heap[vh + 1].val}

\* the pop made on it expands a Str(vh) cell whose header is unmarked
ExpandsStr(it, vh) ==
    /\ it.stack # <<>>
    /\ ~is_pending_mark(Last(it.stack))
    /\ InRange(it, Last(it.stack))
    /\ TopCell(it).tag = "Str"
    /\ TopCell(it).val = vh
    /\ ~get_forwarding_bit(TopCell(it))
    /\ is_marked(Last(it.stack)) \/ ~get_mark_bit(TopCell(it))
    /\ ~get_mark_bit(it.heap[vh + 1])

\* the pop made on it, as to the header at vh: the expansion of a Str(vh)
\* marks the header and leaves Iterable(vh) under Marked(vh); the mark is
\* cleared by the pop of Iterable(vh) alone, which on a heap laid out as
\* terms finds no PendingMark or Marked entry of an argument left on the
\* work list (on other heaps the arguments of two headers may overlap)
HeaderPop(it, vh) ==
    /\ ExpandsStr(it, vh) =>
          /\ get_mark_bit(follow_step(it).it.heap[vh + 1])
          /\ follow_step(it).it.stack
                = Front(it.stack) \o <<iterable_loc(vh, "Heap"), mark_loc(vh, "Heap")>>
    /\ (get_mark_bit(it.heap[vh + 1]) /\ ~get_mark_bit(follow_step(it).it.heap[vh + 1])) =>
          /\ Last(it.stack) = iterable_loc(vh, "Heap")
          /\ follow_step(it).it.stack = Front(it.stack)
          /\ WF0 => ArgEntries(it, vh) = {}

RECURSIVE HeadersAlong(_, _)
HeadersAlong(it, fuel) ==
    \/ it.stack = <<>>
    \/ fuel = 0
    \/ follow_step(it).it.panic
    \/ /\ \A vh \in Headers(it) : HeaderPop(it, vh)
       /\ follow_step(it).k = "continue" => HeadersAlong(follow_step(it).it, fuel - 1)

\* on a heap laid out as terms, a structure header that was yielded through
\* its Marked entry and is no longer marked was followed in the stream by a
\* cell for each argument
ArgsYielded ==
    WF0 => \A i \in 1 .. Len(out) :
        (/\ out[i].tag = "Atom"
         /\ out[i].val >= 1
         /\ out_foci[i].tag = "Marked"
         /\ ~get_mark_bit(heap[out_foci[i].value + 1])) =>
            Len(out) >= i + out[i].val

ActivePath ==
    (kind = "pre" /\ pc = "live") =>
        /\ HeadersAlong(TheIter, PopFuel)
        /\ ArgsYielded

\* C37: active-path marking. From the step in which a Str(vh) cell is
\* expanded with heap[vh] unmarked until every argument of the structure at
\* vh has been yielded, heap[vh].mark stays true: the expansion sets the
\* mark, only the pop of Iterable(vh) clears it, and the mark of a structure
\* header is not cleared while a PendingMark or Marked entry for one of its
\* arguments is still on the work list (the structures being those of a heap
\* laid out as terms).
C37_ActivePathMarking == []ActivePath

\* f(a, b) after f and a were yielded: the header is marked, its second
\* argument is still pending
C37_Witness ==
    /\ kind = "pre" /\ pc = "live"
    /\ heap0 = functor("f", <<a_atom, b_atom>>) /\ root = str_loc_as_cell(0)
    /\ Len(out) = 2
    /\ get_mark_bit(heap[1])
    /\ ArgEntries(TheIter, 0) # {}

----------------------------------------------------------------------------
\* pre-order next has just returned nothing and the iterator is not dropped
Exhausted == kind = "pre" /\ pc = "live" /\ op = "next" /\ ret = None

\* C38: clean at exhaustion. In the state where pre-order next returns
\* nothing, the work list being empty, every heap and machine-stack cell
\* already has mark = false and forwarding = false, before drop runs.
C38_CleanAtExhaustion == [](Exhausted => (stack = <<>> /\ AllUnmarked))

\* a traversal that yielded a cycle sentinel came to its end before drop,
\* the root still on the heap
C38_Witness ==
    /\ Exhausted
    /\ Len(heap) = Len(heap0) + 1
    /\ Len(out) >= 2
    /\ \E i \in 1 .. Len(out) : get_forwarding_bit(out[i]) /\ get_mark_bit(out[i])

----------------------------------------------------------------------------
\* the cell is one for which the post-order iterator pushes a parent frame
IsParent(c) == c.tag \in {"Atom", "Lis", "PStr", "PStrOffset"}

\* the children count a frame for the cell is pushed with
ChildCount(c) == post_frame(c, iterable_loc(0, "Heap"))[1].child_count

\* the frames of ps from place i on were pushed by the call that left ps:
\* each was counted down once for the cell pulled after it
PushedAndCounted(ps, i) ==
    \A j \in i .. Len(ps) :
        /\ IsParent(ps[j].node)
        /\ ps[j].child_count = ChildCount(ps[j].node) - 1

\* a call of post-order next, seen from the parent stack: the frames under
\* the top are left alone; the top frame is popped and yielded, or counted
\* down once and frames are pushed over it; a frame yielded while the base
\* iterator is still valid had its count at 0
FrameStep ==
    (kind = "post" /\ pc = "live" /\ op' = "next" /\ pc' = "live") =>
        /\ Len(parent_stack') >= Len(parent_stack) - 1
        /\ IsPrefix(Front(parent_stack), parent_stack')
        /\ (parent_stack # <<>> /\ Len(parent_stack') >= Len(parent_stack)) =>
              /\ Last(parent_stack).child_count >= 1
              /\ parent_stack'[Len(parent_stack)]
                    = [Last(parent_stack) EXCEPT !.child_count = @ - 1]
        /\ PushedAndCounted(parent_stack', Len(parent_stack) + 1)
        /\ (parent_stack # <<>> /\ Len(parent_stack') < Len(parent_stack)) =>
              /\ ret' = Last(parent_stack).node
              /\ focus' = Last(parent_stack).focus
              /\ base_iter_valid' => Last(parent_stack).child_count = 0
        /\ (ret' # None /\ IsParent(ret') /\ base_iter_valid'
              /\ Len(parent_stack') >= Len(parent_stack)) =>
              ChildCount(ret') = 0
        /\ (ret' = None) => (parent_stack' = <<>> /\ ~base_iter_valid')

\* C39: post-order parents are emitted innermost first. Of two parent
\* frames on the parent stack the one pushed later is yielded before the one
\* pushed earlier: a call of next leaves the frames under the top as they
\* are. A frame is yielded only when its remaining-children count has come
\* down to 0, by one decrement per cell pulled from the base iterator or,
\* once the base iterator is exhausted, per drain step.
C39_InnermostFirst == [][FrameStep]_vars

\* a parent with children was yielded while a frame pushed before it is
\* still on the parent stack, its count not yet at 0
C39_Witness ==
    /\ kind = "post" /\ pc = "live" /\ op = "next"
    /\ ret # None /\ IsParent(ret) /\ ChildCount(ret) >= 1
    /\ parent_stack # <<>>
    /\ Last(parent_stack).child_count >= 1
    /\ base_iter_valid

====
